---- MODULE Spec2Model ----
(***************************************************************************)
(* Authentication and session-token lifecycle of EngGameHub:               *)
(*   TokenService    (backend/src/auth/services/token.service.ts)          *)
(*   PasswordService (backend/src/auth/services/password.service.ts)       *)
(*   AuthService     (auth.service.ts, kept as src/unnamed/part_004)       *)
(* The durable store (Prisma), the cache (Redis), the job queue (Bull) and *)
(* the clock are the shared state.  Strings the code inspects character by *)
(* character (emails, passwords, expiry settings) are sequences of         *)
(* one-character strings.  Time is counted in seconds.                     *)
(***************************************************************************)
EXTENDS Integers, Sequences, FiniteSets, TLC

VARIABLES
    config,          \* jwt.accessTokenExpiry / jwt.refreshTokenExpiry settings
    users,           \* prisma.user            : user id  -> row
    refreshTokenRows,   \* prisma.refreshToken    : token id -> row
    auditLog,        \* prisma.auditLog        : sequence of events
    redis,           \* RedisService           : key -> [val, exp]
    authQueue,       \* Bull queue 'auth'      : sequence of jobs
    now,             \* Date.now() in seconds
    calls,           \* number of calls and clock advances so far
    nextId,          \* next value uuidv4() returns
    issued,          \* every token string handed out so far
    last,            \* outcome of the most recent call
    revokedAll,      \* history: access tokens issued before a revokeAllUserTokens of their user
    usedRefresh,     \* history: refresh tokens a refreshTokenRows call succeeded with
    consumed,        \* history: single-use tokens a verification succeeded with
    failedMfa,       \* history: challenge tokens a wrong code was presented with
    attempts,        \* history: the observed calls, each with its subject, time and outcome
    pc               \* the calls in flight: where each stands and what it holds

vars == <<config, users, refreshTokenRows, auditLog, redis, authQueue, now, calls,
          nextId, issued, last, revokedAll, usedRefresh, consumed, failedMfa, attempts, pc>>

-----------------------------------------------------------------------------
(* Bounds of the exploration *)

MaxCalls == 4        \* calls of the service and clock advances

-----------------------------------------------------------------------------
(* Characters and strings *)

UpperChars == <<"A","B","C","D","E","F","G","H","I","J","K","L","M",
                "N","O","P","Q","R","S","T","U","V","W","X","Y","Z">>
LowerChars == <<"a","b","c","d","e","f","g","h","i","j","k","l","m",
                "n","o","p","q","r","s","t","u","v","w","x","y","z">>
DigitChars == <<"0","1","2","3","4","5","6","7","8","9">>
SpecialChars == {"!","@","#","$","%","^","&","*","(",")",",",".","?","\"",":","{","}","|","<",">"}

Range(s) == {s[i] : i \in 1..Len(s)}

IndexOf(c, s) == CHOOSE i \in 1..Len(s) : s[i] = c

\* String.prototype.toLowerCase, one character
UpperToLower == [c \in Range(UpperChars) |-> LowerChars[IndexOf(c, UpperChars)]]

LowerChar(c) == IF c \in DOMAIN UpperToLower THEN UpperToLower[c] ELSE c

\* String.prototype.toLowerCase
toLowerCase(s) == [i \in 1..Len(s) |-> LowerChar(s[i])]

\* String.prototype.trim
RECURSIVE trim(_)
trim(s) ==
    IF s = <<>> THEN s
    ELSE IF Head(s) = " " THEN trim(Tail(s))
    ELSE IF s[Len(s)] = " " THEN trim(SubSeq(s, 1, Len(s) - 1))
    ELSE s

\* String.prototype.includes
includes(s, sub) ==
    \E i \in 0..(Len(s) - Len(sub)) : SubSeq(s, i + 1, i + Len(sub)) = sub

\* substr.split('').reverse().join('')
Reverse(s) == [i \in 1..Len(s) |-> s[Len(s) + 1 - i]]

\* parseInt(digits, 10) for a sequence of decimal digits
RECURSIVE parseInt(_)
parseInt(s) ==
    IF s = <<>> THEN 0
    ELSE 10 * parseInt(SubSeq(s, 1, Len(s) - 1)) + (IndexOf(s[Len(s)], DigitChars) - 1)

-----------------------------------------------------------------------------
(* PasswordService *)

minLength == 8
maxLength == 128

commonPasswords ==
    { <<"p","a","s","s","w","o","r","d">>,
      <<"p","a","s","s","w","o","r","d","1","2","3">>,
      <<"1","2","3","4","5","6">>,
      <<"q","w","e","r","t","y">>,
      <<"a","b","c","1","2","3">>,
      <<"a","d","m","i","n">>,
      <<"r","o","o","t">>,
      <<"u","s","e","r">>,
      <<"g","u","e","s","t">>,
      <<"w","e","l","c","o","m","e">>,
      <<"l","e","t","m","e","i","n">> }

sequences ==
    { LowerChars, UpperChars, DigitChars,
      <<"q","w","e","r","t","y","u","i","o","p">>,
      <<"a","s","d","f","g","h","j","k","l">>,
      <<"z","x","c","v","b","n","m">> }

\* a check that looks for the sequences forwards only
hasSequentialChars_forward(password, n) ==
    \E sequence \in sequences :
        \E i \in 0..(Len(sequence) - n) :
            includes(toLowerCase(password), toLowerCase(SubSeq(sequence, i + 1, i + n)))

hasSequentialChars(password, n) ==
    \E sequence \in sequences :
        \E i \in 0..(Len(sequence) - n) :
            LET substr == SubSeq(sequence, i + 1, i + n)
            IN  \/ includes(toLowerCase(password), toLowerCase(substr))
                \/ includes(toLowerCase(password), toLowerCase(Reverse(substr)))

hasRepeatingChars(password, n) ==
    \E i \in 1..(Len(password) - n + 1) :
        \A j \in i..(i + n - 1) : password[j] = password[i]

passedChecks(password) ==
    (IF \E c \in Range(password) : c \in Range(UpperChars) THEN 1 ELSE 0)
  + (IF \E c \in Range(password) : c \in Range(LowerChars) THEN 1 ELSE 0)
  + (IF \E c \in Range(password) : c \in Range(DigitChars) THEN 1 ELSE 0)
  + (IF \E c \in Range(password) : c \in SpecialChars THEN 1 ELSE 0)

\* a validation that checks the length alone
validatePasswordStrength_lengthOnly(password) ==
    /\ ~(Len(password) < minLength)
    /\ ~(Len(password) > maxLength)

\* TRUE iff validatePasswordStrength returns without throwing ValidationError
validatePasswordStrength(password) ==
    /\ ~(Len(password) < minLength)
    /\ ~(Len(password) > maxLength)
    /\ ~(passedChecks(password) < 3)
    /\ toLowerCase(password) \notin commonPasswords
    /\ ~hasSequentialChars(password, 3)
    /\ ~hasRepeatingChars(password, 3)

\* bcrypt.hash: the digest determines the password it was made from
hashPassword(password) == <<"bcrypt", password>>

\* a comparison that accepts every password
verifyPassword_any(plainPassword, hashedPassword) == TRUE

\* bcrypt.compare
verifyPassword(plainPassword, hashedPassword) == hashedPassword = hashPassword(plainPassword)

-----------------------------------------------------------------------------
(* Configuration: jwt.accessTokenExpiry and jwt.refreshTokenExpiry *)

DefaultAccessTokenExpiry == <<"1","5","m">>
DefaultRefreshTokenExpiry == <<"7","d">>

multipliers == [u \in {"s","m","h","d","w"} |->
                  CASE u = "s" -> 1 [] u = "m" -> 60 [] u = "h" -> 3600
                    [] u = "d" -> 86400 [] u = "w" -> 604800]

IsDigits(s) == s # <<>> /\ \A i \in 1..Len(s) : s[i] \in Range(DigitChars)

\* a parse whose pattern requires the unit
parseExpiryToSeconds_unitRequired(expiry) ==
    IF /\ expiry # <<>>
       /\ expiry[Len(expiry)] \in DOMAIN multipliers
       /\ IsDigits(SubSeq(expiry, 1, Len(expiry) - 1))
    THEN parseInt(SubSeq(expiry, 1, Len(expiry) - 1)) * multipliers[expiry[Len(expiry)]]
    ELSE 3600

\* expiry.match(/^(\d+)([smhdw]?)$/), then value * multiplier, 3600 without a match
parseExpiryToSeconds(expiry) ==
    IF IsDigits(expiry) THEN parseInt(expiry) * multipliers["s"]
    ELSE IF /\ expiry # <<>>
            /\ expiry[Len(expiry)] \in DOMAIN multipliers
            /\ IsDigits(SubSeq(expiry, 1, Len(expiry) - 1))
         THEN parseInt(SubSeq(expiry, 1, Len(expiry) - 1)) * multipliers[expiry[Len(expiry)]]
         ELSE 3600

\* the lifetime jwtService.signAsync gives a token for expiresIn: <digits><unit>
\* with the units of parseExpiryToSeconds and "y" (365.25 days); a string of
\* digits alone counts milliseconds
SecondsPerYear == 31557600

signExpiresIn(expiry) ==
    IF IsDigits(expiry) THEN parseInt(expiry) \div 1000
    ELSE IF expiry[Len(expiry)] = "y"
         THEN parseInt(SubSeq(expiry, 1, Len(expiry) - 1)) * SecondsPerYear
         ELSE parseInt(SubSeq(expiry, 1, Len(expiry) - 1)) * multipliers[expiry[Len(expiry)]]

-----------------------------------------------------------------------------
(* Signed tokens.  type "undefined" is the access token, whose payload has *)
(* no type; email <<>> is a payload without email.                         *)

NoEmail == <<>>

NoToken == [type |-> "none", sub |-> 0, email |-> NoEmail, jti |-> 0, exp |-> 0, sig |-> FALSE]

\* jwtService.signAsync(payload, {expiresIn, issuer, audience})
signAsync(type, sub, email, jti, expiresIn) ==
    [type |-> type, sub |-> sub, email |-> email, jti |-> jti,
     exp |-> now + expiresIn, sig |-> TRUE]

\* the same payload under a signature the service's secret does not produce
Forge(token) == [token EXCEPT !.sig = FALSE]

\* jwtService.verifyAsync(token, {secret, issuer, audience}): TRUE iff it resolves
jwtVerify(token, ignoreExpiration) ==
    /\ token.sig
    /\ (ignoreExpiration \/ now < token.exp)

-----------------------------------------------------------------------------
(* RedisService *)

redisLive(k) == k \in DOMAIN redis /\ now < redis[k].exp

\* only used where redisLive(k)
redisGet(k) == redis[k].val

\* a write that leaves a live entry in place
setex_nx(r, k, ttl, v) ==
    IF k \in DOMAIN r /\ now < r[k].exp THEN r
    ELSE [x \in (DOMAIN r) \cup {k} |-> IF x = k THEN [val |-> v, exp |-> now + ttl] ELSE r[x]]

setex(r, k, ttl, v) ==
    [x \in (DOMAIN r) \cup {k} |-> IF x = k THEN [val |-> v, exp |-> now + ttl] ELSE r[x]]

del(r, k) == [x \in (DOMAIN r) \ {k} |-> r[x]]

-----------------------------------------------------------------------------
(* TokenService *)

EmailVerificationTtl == 86400
PasswordResetTtl == 3600
RevokedTokenDefaultTtl == 86400
UserBlacklistTtl == 86400
RetentionSeconds == 604800

isTokenRevoked(jti) ==
    /\ redisLive(<<"revoked_token", jti>>)
    /\ redisGet(<<"revoked_token", jti>>) = "true"

\* a verifyAccessToken that does not look the grant up
verifyAccessToken_noGrant(token) ==
    /\ jwtVerify(token, FALSE)
    /\ ~isTokenRevoked(token.jti)

\* TRUE iff verifyAccessToken returns the payload (FALSE: it returns null)
verifyAccessToken(token) ==
    /\ jwtVerify(token, FALSE)
    /\ ~isTokenRevoked(token.jti)
    /\ redisLive(<<"access_token", token.jti>>)

\* TRUE iff redisService.get rejects: a read that fails propagates as an error
getRejects(readFails) == readFails

\* a verifyAccessToken that takes a failed read of the marker for "not revoked"
verifyAccessTokenWith_failOpen(token, markerReadFails, grantReadFails) ==
    /\ jwtVerify(token, FALSE)
    /\ (getRejects(markerReadFails) \/ ~isTokenRevoked(token.jti))
    /\ ~getRejects(grantReadFails)
    /\ redisLive(<<"access_token", token.jti>>)

\* verifyAccessToken when the read of the revocation marker or of the grant may
\* fail: the catch block turns the rejection into null
verifyAccessTokenWith(token, markerReadFails, grantReadFails) ==
    /\ jwtVerify(token, FALSE)
    /\ ~getRejects(markerReadFails)
    /\ ~isTokenRevoked(token.jti)
    /\ ~getRejects(grantReadFails)
    /\ redisLive(<<"access_token", token.jti>>)

\* a verifyRefreshToken whose lookup leaves isRevoked out
verifyRefreshToken_anyRow(token) ==
    /\ jwtVerify(token, FALSE)
    /\ token.type = "refresh"
    /\ token.jti \in DOMAIN refreshTokenRows
    /\ ~(refreshTokenRows[token.jti].expiresAt < now)

\* TRUE iff verifyRefreshToken returns token data (FALSE: it returns null)
verifyRefreshToken(token) ==
    /\ jwtVerify(token, FALSE)
    /\ token.type = "refresh"
    /\ token.jti \in DOMAIN refreshTokenRows
    /\ ~refreshTokenRows[token.jti].isRevoked
    /\ ~(refreshTokenRows[token.jti].expiresAt < now)

\* a revokeRefreshToken that decodes the token without verifying its signature
revokeRefreshToken_unsigned(rt, token) ==
    IF token.jti # 0
    THEN [id \in DOMAIN rt |->
            IF id = token.jti /\ ~rt[id].isRevoked
            THEN [rt[id] EXCEPT !.isRevoked = TRUE] ELSE rt[id]]
    ELSE rt

\* a revokeRefreshToken that writes nothing
revokeRefreshToken_noop(rt, token) == rt

\* the refreshToken table after revokeRefreshToken(token)
revokeRefreshToken(rt, token) ==
    IF jwtVerify(token, TRUE) /\ token.jti # 0
    THEN [id \in DOMAIN rt |->
            IF id = token.jti /\ ~rt[id].isRevoked
            THEN [rt[id] EXCEPT !.isRevoked = TRUE] ELSE rt[id]]
    ELSE rt

\* a revokeAllUserTokens that leaves the blacklist marker out
addUserToBlacklist_none(r, userId) == r

addUserToBlacklist(r, userId) == setex(r, <<"user_blacklist", userId>>, UserBlacklistTtl, "true")

\* a revokeAllUserTokens whose bulk update matches no row
revokeAllRows_none(rt, userId) == rt

\* a bulk update that flips the flag of the user's rows
revokeAllRows_toggle(rt, userId) ==
    [id \in DOMAIN rt |->
        IF rt[id].userId = userId
        THEN [rt[id] EXCEPT !.isRevoked = ~rt[id].isRevoked] ELSE rt[id]]

\* a bulk update without the userId condition
revokeAllRows_everyUser(rt, userId) ==
    [id \in DOMAIN rt |->
        IF ~rt[id].isRevoked
        THEN [rt[id] EXCEPT !.isRevoked = TRUE] ELSE rt[id]]

\* the refreshToken table after revokeAllUserTokens(userId)
revokeAllRows(rt, userId) ==
    [id \in DOMAIN rt |->
        IF rt[id].userId = userId /\ ~rt[id].isRevoked
        THEN [rt[id] EXCEPT !.isRevoked = TRUE] ELSE rt[id]]

\* generateTokenPair(user): the two tokens, the row and the grant it writes
pairAccessToken(userId, email) ==
    signAsync("undefined", userId, email, nextId,
              signExpiresIn(config.accessTokenExpiry))

pairRefreshToken(userId) ==
    signAsync("refresh", userId, NoEmail, nextId + 1,
              signExpiresIn(config.refreshTokenExpiry))

pairRow(rt, userId) ==
    [id \in (DOMAIN rt) \cup {nextId + 1} |->
        IF id = nextId + 1
        THEN [userId |-> userId,
              expiresAt |-> now + parseExpiryToSeconds(config.refreshTokenExpiry),
              isRevoked |-> FALSE, createdAt |-> now]
        ELSE rt[id]]

\* prisma.refreshToken.create that writes nothing
createRow_skipped(rt, id, userId) == rt

\* prisma.refreshToken.create({id, token, userId, expiresAt})
createRow(rt, id, userId) ==
    [x \in (DOMAIN rt) \cup {id} |->
        IF x = id
        THEN [userId |-> userId,
              expiresAt |-> now + parseExpiryToSeconds(config.refreshTokenExpiry),
              isRevoked |-> FALSE, createdAt |-> now]
        ELSE rt[x]]

\* redisService.setex(access_token:<jti>, expiresIn, {userId, email, ...})
cacheGrant(r, jti, userId, email) ==
    setex(r, <<"access_token", jti>>, parseExpiryToSeconds(config.accessTokenExpiry),
          [userId |-> userId, email |-> email])

\* TRUE iff redisService.setex rejects: a write that fails propagates as an error
setexRejects(writeFails) == writeFails

\* the grant written under the refresh token's id
pairGrant_refreshId(r, userId, email) ==
    setex(r, <<"access_token", nextId + 1>>, parseExpiryToSeconds(config.accessTokenExpiry),
          [userId |-> userId, email |-> email])

\* a grant that replaces the grants the user already holds
pairGrant_replaceGrants(r, userId, email) ==
    setex([k \in {x \in DOMAIN r : ~(x[1] = "access_token" /\ r[x].val.userId = userId)} |-> r[k]],
          <<"access_token", nextId>>, parseExpiryToSeconds(config.accessTokenExpiry),
          [userId |-> userId, email |-> email])

pairGrant(r, userId, email) ==
    setex(r, <<"access_token", nextId>>, parseExpiryToSeconds(config.accessTokenExpiry),
          [userId |-> userId, email |-> email])

\* generateEmailVerificationToken / generatePasswordResetToken
emailVerificationToken(userId, email) ==
    signAsync("email_verification", userId, email, nextId, EmailVerificationTtl)

passwordResetToken(userId, email) ==
    signAsync("password_reset", userId, email, nextId, PasswordResetTtl)

\* a verification that does not compare the token with the cached one
verifySingleUse_noCache(type, token) ==
    /\ jwtVerify(token, FALSE)
    /\ token.type = type

\* a verifier that takes the purpose from the token
verifySingleUse_anyPurpose(type, token) ==
    /\ jwtVerify(token, FALSE)
    /\ redisLive(<<token.type, token.sub>>)
    /\ redisGet(<<token.type, token.sub>>) = token

\* TRUE iff verifyEmailToken / verifyPasswordResetToken returns token data
verifySingleUse(type, token) ==
    /\ jwtVerify(token, FALSE)
    /\ token.type = type
    /\ redisLive(<<type, token.sub>>)
    /\ redisGet(<<type, token.sub>>) = token

verifyEmailToken(token) == verifySingleUse("email_verification", token)

verifyPasswordResetToken(token) == verifySingleUse("password_reset", token)

-----------------------------------------------------------------------------
(* RedisService.checkRateLimit and MfaService: fixed-window counter, and   *)
(* challenge tokens bound to a user id in the cache                        *)

MfaTokenTtl == 300

\* the counter key of the window the clock is in
rateKey(key, windowSeconds) == <<"rate_limit", key, now \div windowSeconds>>

rateCount(key, windowSeconds) ==
    IF redisLive(rateKey(key, windowSeconds)) THEN redisGet(rateKey(key, windowSeconds)) ELSE 0

\* a check that compares the count before the increment with the limit
checkRateLimit_preIncrement(key, limit, windowSeconds) == rateCount(key, windowSeconds) <= limit

\* TRUE iff checkRateLimit(key, limit, windowSeconds) allows the call
checkRateLimit(key, limit, windowSeconds) == rateCount(key, windowSeconds) + 1 <= limit

\* the cache after checkRateLimit(key, limit, windowSeconds)
rateIncrement(r, key, windowSeconds) ==
    IF redisLive(rateKey(key, windowSeconds))
    THEN [r EXCEPT ![rateKey(key, windowSeconds)].val = @ + 1]
    ELSE setex(r, rateKey(key, windowSeconds), windowSeconds, 1)

generateMfaToken(userId) == [NoToken EXCEPT !.type = "mfa", !.jti = nextId, !.sig = TRUE]

mfaGrant(r, userId) == setex(r, <<"mfa_token", generateMfaToken(userId)>>, MfaTokenTtl, userId)

\* the user id verifyMfaToken resolves the challenge to, 0 for null
verifyMfaToken(mfaToken) ==
    IF redisLive(<<"mfa_token", mfaToken>>) THEN redisGet(<<"mfa_token", mfaToken>>) ELSE 0

verifyMfaCode(userId, mfaCode) == mfaCode = users[userId].mfaSecret

-----------------------------------------------------------------------------
(* Inputs *)

Str0ngPass == <<"S","t","r","0","n","g","!","P","a","s","s">>
N3wPassw0rd == <<"N","3","w","!","P","a","s","s","w","0","r","d">>
WeakPass == <<"p","a","s","s","w","o","r","d">>

PasswordInputs == {Str0ngPass, N3wPassw0rd, WeakPass}
EmailInputs == { <<"a">>, <<" ","A">>, <<"b">> }
IpInputs == {"10.0.0.1"}
MfaCodes == {"123456", "000000"}
TickSteps == {300, 3600, 604800}

\* the inputs validatePasswordStrength accepts, and email.toLowerCase().trim() of
\* each input, computed once
AcceptedPasswords == {p \in PasswordInputs : validatePasswordStrength(p)}
NormalizedEmail == [e \in EmailInputs |-> trim(toLowerCase(e))]

\* a string that is no token of this service
Garbage == [NoToken EXCEPT !.type = "garbage"]

\* what a client can present as a token: anything handed out, or a forgery
TokenInputs == issued

\* the tokens of one kind a client holds, and a string that is no token
Presented(type) == {t \in issued : t.type = type} \cup {Garbage}
ForgedInputs == {Forge(t) : t \in issued}

-----------------------------------------------------------------------------
(* AuthService helpers *)

\* a lookup by the email as typed
findUserByEmail_raw(email) ==
    IF \E u \in DOMAIN users : users[u].email = email
    THEN CHOOSE u \in DOMAIN users : users[u].email = email
    ELSE 0

\* the id of the user row with this email (lower-cased, trimmed), 0 for null
findUserByEmail(email) ==
    IF \E u \in DOMAIN users : users[u].email = NormalizedEmail[email]
    THEN CHOOSE u \in DOMAIN users : users[u].email = NormalizedEmail[email]
    ELSE 0

logAuthEvent(log, userId, action) == Append(log, [userId |-> userId, action |-> action])

clearUserCache(r, userId) ==
    del(del(del(r, <<"user", userId>>), <<"user_progress", userId>>), <<"user_preferences", userId>>)

Result(op, res, user, access, refresh, mfaToken, arg) ==
    [op |-> op, res |-> res, user |-> user, access |-> access, refresh |-> refresh,
     mfaToken |-> mfaToken, arg |-> arg]

AccessTokensOf(userId) == {t \in issued : t.type = "undefined" /\ t.sub = userId}

History == <<revokedAll, usedRefresh, consumed, failedMfa>>

-----------------------------------------------------------------------------
(* AuthService use cases *)

\* a login that never asks for the second factor
mfaEnabled_never(user) == FALSE

\* login: if (user.mfaEnabled)
mfaEnabled(user) == users[user].mfaEnabled

\* a verifyMfaAndLogin that goes on after a wrong code
isValidMfaCode_any(userId, mfaCode) == TRUE

\* verifyMfaAndLogin: the code check that throws UnauthorizedError when it fails
isValidMfaCode(userId, mfaCode) == verifyMfaCode(userId, mfaCode)

register(email, password) ==
    LET conflict == findUserByEmail(email) # 0
        ok == ~conflict /\ password \in AcceptedPasswords
        id == Cardinality(DOMAIN users) + 1
        mail == NormalizedEmail[email]
        row == [email |-> mail, passwordHash |-> hashPassword(password),
                mfaEnabled |-> FALSE, mfaSecret |-> "",
                emailVerified |-> FALSE, lastLoginAt |-> 0]
    IN  /\ users' = IF ok THEN [u \in (DOMAIN users) \cup {id} |-> IF u = id THEN row ELSE users[u]]
                    ELSE users
        /\ refreshTokenRows' = IF ok THEN pairRow(refreshTokenRows, id) ELSE refreshTokenRows
        /\ redis' = IF ok THEN pairGrant(redis, id, mail) ELSE redis
        /\ nextId' = IF ok THEN nextId + 2 ELSE nextId
        /\ issued' = IF ok THEN issued \cup {pairAccessToken(id, mail), pairRefreshToken(id)}
                     ELSE issued
        /\ authQueue' = IF ok
                        THEN Append(authQueue, [name |-> "send-verification-email",
                                                userId |-> id, email |-> mail])
                        ELSE authQueue
        /\ auditLog' = IF ok THEN logAuthEvent(auditLog, id, "REGISTER") ELSE auditLog
        /\ last' = IF conflict THEN Result("register", "Conflict", 0, NoToken, NoToken, NoToken, NoToken)
                   ELSE IF ~ok THEN Result("register", "ValidationError", 0, NoToken, NoToken, NoToken, NoToken)
                   ELSE Result("register", "ok", id, pairAccessToken(id, mail),
                               pairRefreshToken(id), NoToken, NoToken)
        /\ UNCHANGED <<config, now, History>>

\* a validateUserCredentials that tells a missing user from a wrong password
credentialsError_notFound(email, password) ==
    IF findUserByEmail(email) = 0 THEN "NotFound"
    ELSE IF ~verifyPassword(password, users[findUserByEmail(email)].passwordHash)
    THEN "Unauthorized"
    ELSE "none"

\* validateUserCredentials: the error it throws, "none" when it returns the user;
\* both throws are UnauthorizedError('Invalid credentials')
credentialsError(email, password) ==
    IF findUserByEmail(email) = 0 THEN "Unauthorized"
    ELSE IF ~verifyPassword(password, users[findUserByEmail(email)].passwordHash)
    THEN "Unauthorized"
    ELSE "none"

\* what login returns to the caller, or the error it throws
loginResult(email, password, ip) ==
    LET user == findUserByEmail(email)
        passwordOk == credentialsError(email, password) = "none"
        canLogin == passwordOk /\ checkRateLimit(<<"login_attempts", user, ip>>, 5, 300)
    IN  IF ~passwordOk
        THEN Result("login", credentialsError(email, password), 0, NoToken, NoToken, NoToken, NoToken)
        ELSE IF ~canLogin
        THEN Result("login", "TooManyAttempts", user, NoToken, NoToken, NoToken, NoToken)
        ELSE IF mfaEnabled(user)
        THEN Result("login", "requiresMfa", user, NoToken, NoToken,
                    generateMfaToken(user), NoToken)
        ELSE Result("login", "ok", user, pairAccessToken(user, users[user].email),
                    pairRefreshToken(user), NoToken, NoToken)

login(email, password, ip) ==
    LET user == findUserByEmail(email)
        found == user # 0
        passwordOk == credentialsError(email, password) = "none"
        key == <<"login_attempts", user, ip>>
        canLogin == passwordOk /\ checkRateLimit(key, 5, 300)
        mfa == canLogin /\ mfaEnabled(user)
        session == canLogin /\ ~mfaEnabled(user)
    IN  /\ redis' = IF ~passwordOk THEN redis
                    ELSE IF mfa THEN mfaGrant(rateIncrement(redis, key, 300), user)
                    ELSE IF session THEN pairGrant(rateIncrement(redis, key, 300), user, users[user].email)
                    ELSE rateIncrement(redis, key, 300)
        /\ refreshTokenRows' = IF session THEN pairRow(refreshTokenRows, user) ELSE refreshTokenRows
        /\ users' = IF session THEN [users EXCEPT ![user].lastLoginAt = now] ELSE users
        /\ nextId' = IF mfa THEN nextId + 1 ELSE IF session THEN nextId + 2 ELSE nextId
        /\ issued' = IF mfa THEN issued \cup {generateMfaToken(user)}
                     ELSE IF session
                     THEN issued \cup {pairAccessToken(user, users[user].email), pairRefreshToken(user)}
                     ELSE issued
        /\ auditLog' = IF found /\ ~passwordOk THEN logAuthEvent(auditLog, user, "LOGIN_FAILED")
                       ELSE IF mfa THEN logAuthEvent(auditLog, user, "MFA_REQUIRED")
                       ELSE IF session THEN logAuthEvent(auditLog, user, "LOGIN_SUCCESS")
                       ELSE auditLog
        /\ last' = loginResult(email, password, ip)
        /\ UNCHANGED <<config, authQueue, now, History>>

verifyMfaAndLogin(mfaToken, mfaCode) ==
    LET userId == verifyMfaToken(mfaToken)
        found == userId # 0 /\ userId \in DOMAIN users
        ok == found /\ isValidMfaCode(userId, mfaCode)
    IN  /\ redis' = IF ok THEN pairGrant(redis, userId, users[userId].email) ELSE redis
        /\ refreshTokenRows' = IF ok THEN pairRow(refreshTokenRows, userId) ELSE refreshTokenRows
        /\ users' = IF ok THEN [users EXCEPT ![userId].lastLoginAt = now] ELSE users
        /\ nextId' = IF ok THEN nextId + 2 ELSE nextId
        /\ issued' = IF ok
                     THEN issued \cup {pairAccessToken(userId, users[userId].email), pairRefreshToken(userId)}
                     ELSE issued
        /\ auditLog' = IF ok THEN logAuthEvent(auditLog, userId, "MFA_LOGIN_SUCCESS")
                       ELSE IF found THEN logAuthEvent(auditLog, userId, "MFA_FAILED")
                       ELSE auditLog
        /\ failedMfa' = IF found /\ ~ok THEN failedMfa \cup {mfaToken} ELSE failedMfa
        /\ last' = IF ok
                   THEN Result("verifyMfaAndLogin", "ok", userId,
                               pairAccessToken(userId, users[userId].email),
                               pairRefreshToken(userId), NoToken, mfaToken)
                   ELSE Result("verifyMfaAndLogin", "Unauthorized", 0, NoToken, NoToken, NoToken, mfaToken)
        /\ UNCHANGED <<config, authQueue, now, revokedAll, usedRefresh, consumed>>

refreshTokens(refreshToken) ==
    LET ok == verifyRefreshToken(refreshToken) /\ refreshToken.sub \in DOMAIN users
        userId == refreshToken.sub
    IN  /\ redis' = IF ok THEN pairGrant(redis, userId, users[userId].email) ELSE redis
        /\ refreshTokenRows' = IF ok
                               THEN revokeRefreshToken(pairRow(refreshTokenRows, userId), refreshToken)
                               ELSE refreshTokenRows
        /\ nextId' = IF ok THEN nextId + 2 ELSE nextId
        /\ issued' = IF ok
                     THEN issued \cup {pairAccessToken(userId, users[userId].email), pairRefreshToken(userId)}
                     ELSE issued
        /\ auditLog' = IF ok THEN logAuthEvent(auditLog, userId, "TOKEN_REFRESH") ELSE auditLog
        /\ usedRefresh' = IF ok THEN usedRefresh \cup {refreshToken} ELSE usedRefresh
        /\ last' = IF ok
                   THEN Result("refreshTokens", "ok", userId,
                               pairAccessToken(userId, users[userId].email),
                               pairRefreshToken(userId), NoToken, refreshToken)
                   ELSE Result("refreshTokens", "Unauthorized", 0, NoToken, NoToken, NoToken, refreshToken)
        /\ UNCHANGED <<config, users, authQueue, now, revokedAll, consumed, failedMfa>>

\* refreshToken = NoToken: the call without a refresh token
logout(userId, refreshToken) ==
    /\ refreshTokenRows' =
          revokeAllRows(IF refreshToken # NoToken
                        THEN revokeRefreshToken(refreshTokenRows, refreshToken)
                        ELSE refreshTokenRows, userId)
    /\ redis' = clearUserCache(addUserToBlacklist(redis, userId), userId)
    /\ auditLog' = logAuthEvent(auditLog, userId, "LOGOUT")
    /\ revokedAll' = revokedAll \cup AccessTokensOf(userId)
    /\ last' = Result("logout", "ok", userId, NoToken, NoToken, NoToken, refreshToken)
    /\ UNCHANGED <<config, users, authQueue, now, nextId, issued, usedRefresh, consumed, failedMfa>>

sendVerificationEmail(email) ==
    LET user == findUserByEmail(email)
        checked == user # 0 /\ ~users[user].emailVerified
        key == <<"verify_email", email>>
        canSend == checked /\ checkRateLimit(key, 3, 300)
    IN  /\ redis' = IF checked THEN rateIncrement(redis, key, 300) ELSE redis
        /\ authQueue' = IF canSend
                        THEN Append(authQueue, [name |-> "send-verification-email",
                                                userId |-> user, email |-> users[user].email])
                        ELSE authQueue
        /\ last' = IF user = 0
                   THEN Result("sendVerificationEmail", "UserNotFound", 0, NoToken, NoToken, NoToken, NoToken)
                   ELSE IF ~checked
                   THEN Result("sendVerificationEmail", "AlreadyVerified", user, NoToken, NoToken, NoToken, NoToken)
                   ELSE IF ~canSend
                   THEN Result("sendVerificationEmail", "TooManyEmails", user, NoToken, NoToken, NoToken, NoToken)
                   ELSE Result("sendVerificationEmail", "ok", user, NoToken, NoToken, NoToken, NoToken)
        /\ UNCHANGED <<config, users, refreshTokenRows, auditLog, now, nextId, issued, History>>

verifyEmail(token) ==
    LET ok == verifyEmailToken(token) /\ token.sub \in DOMAIN users
    IN  /\ redis' = IF ok THEN del(redis, <<"email_verification", token.sub>>) ELSE redis
        /\ users' = IF ok THEN [users EXCEPT ![token.sub].emailVerified = TRUE] ELSE users
        /\ auditLog' = IF ok THEN logAuthEvent(auditLog, token.sub, "EMAIL_VERIFIED") ELSE auditLog
        /\ consumed' = IF ok THEN consumed \cup {token} ELSE consumed
        /\ last' = IF ok
                   THEN Result("verifyEmail", "ok", token.sub, NoToken, NoToken, NoToken, token)
                   ELSE Result("verifyEmail", "BadRequest", 0, NoToken, NoToken, NoToken, token)
        /\ UNCHANGED <<config, refreshTokenRows, authQueue, now, nextId, issued,
                       revokedAll, usedRefresh, failedMfa>>

sendPasswordResetEmail(email) ==
    LET user == findUserByEmail(email)
        key == <<"reset_password", email>>
        canSend == user # 0 /\ checkRateLimit(key, 3, 300)
    IN  /\ redis' = IF user # 0 THEN rateIncrement(redis, key, 300) ELSE redis
        /\ authQueue' = IF canSend
                        THEN Append(authQueue, [name |-> "send-password-reset-email",
                                                userId |-> user, email |-> users[user].email])
                        ELSE authQueue
        /\ last' = IF user # 0 /\ ~canSend
                   THEN Result("sendPasswordResetEmail", "TooManyEmails", 0, NoToken, NoToken, NoToken, NoToken)
                   ELSE Result("sendPasswordResetEmail", "ok", 0, NoToken, NoToken, NoToken, NoToken)
        /\ UNCHANGED <<config, users, refreshTokenRows, auditLog, now, nextId, issued, History>>

resetPassword(token, newPassword) ==
    LET tokenOk == verifyPasswordResetToken(token) /\ token.sub \in DOMAIN users
        ok == tokenOk /\ newPassword \in AcceptedPasswords
        userId == token.sub
    IN  /\ redis' = IF ok THEN addUserToBlacklist(del(redis, <<"password_reset", userId>>), userId)
                    ELSE IF tokenOk THEN del(redis, <<"password_reset", userId>>)
                    ELSE redis
        /\ users' = IF ok THEN [users EXCEPT ![userId].passwordHash = hashPassword(newPassword)]
                    ELSE users
        /\ refreshTokenRows' = IF ok THEN revokeAllRows(refreshTokenRows, userId) ELSE refreshTokenRows
        /\ auditLog' = IF ok THEN logAuthEvent(auditLog, userId, "PASSWORD_RESET") ELSE auditLog
        /\ consumed' = IF tokenOk THEN consumed \cup {token} ELSE consumed
        /\ revokedAll' = IF ok THEN revokedAll \cup AccessTokensOf(userId) ELSE revokedAll
        /\ last' = IF ~tokenOk
                   THEN Result("resetPassword", "BadRequest", 0, NoToken, NoToken, NoToken, token)
                   ELSE IF ~ok
                   THEN Result("resetPassword", "ValidationError", userId, NoToken, NoToken, NoToken, token)
                   ELSE Result("resetPassword", "ok", userId, NoToken, NoToken, NoToken, token)
        /\ UNCHANGED <<config, authQueue, now, nextId, issued, usedRefresh, failedMfa>>

changePassword(userId, oldPassword, newPassword) ==
    LET oldOk == verifyPassword(oldPassword, users[userId].passwordHash)
        ok == oldOk /\ newPassword \in AcceptedPasswords
    IN  /\ userId \in DOMAIN users
        /\ users' = IF ok THEN [users EXCEPT ![userId].passwordHash = hashPassword(newPassword)]
                    ELSE users
        /\ refreshTokenRows' = IF ok THEN revokeAllRows(refreshTokenRows, userId) ELSE refreshTokenRows
        /\ redis' = IF ok THEN addUserToBlacklist(redis, userId) ELSE redis
        /\ auditLog' = IF ok THEN logAuthEvent(auditLog, userId, "PASSWORD_CHANGE") ELSE auditLog
        /\ revokedAll' = IF ok THEN revokedAll \cup AccessTokensOf(userId) ELSE revokedAll
        /\ last' = IF ~oldOk
                   THEN Result("changePassword", "Unauthorized", userId, NoToken, NoToken, NoToken, NoToken)
                   ELSE IF ~ok
                   THEN Result("changePassword", "ValidationError", userId, NoToken, NoToken, NoToken, NoToken)
                   ELSE Result("changePassword", "ok", userId, NoToken, NoToken, NoToken, NoToken)
        /\ UNCHANGED <<config, authQueue, now, nextId, issued, usedRefresh, consumed, failedMfa>>

\* the queue worker takes the oldest job, issues the single-use token and mails it
processJob ==
    /\ authQueue # <<>>
    /\ LET job == Head(authQueue)
           type == IF job.name = "send-verification-email"
                   THEN "email_verification" ELSE "password_reset"
           token == IF job.name = "send-verification-email"
                    THEN emailVerificationToken(job.userId, job.email)
                    ELSE passwordResetToken(job.userId, job.email)
           ttl == IF job.name = "send-verification-email"
                  THEN EmailVerificationTtl ELSE PasswordResetTtl
       IN  /\ redis' = setex(redis, <<type, job.userId>>, ttl, token)
           /\ issued' = issued \cup {token}
           /\ last' = Result("processJob", "ok", job.userId, NoToken, NoToken, NoToken, token)
    /\ authQueue' = Tail(authQueue)
    /\ nextId' = nextId + 1
    /\ UNCHANGED <<config, users, refreshTokenRows, auditLog, now, History>>

Idle == Result("none", "ok", 0, NoToken, NoToken, NoToken, NoToken)

\* the clock advances; the cache drops the keys whose TTL has run out
Tick(d) ==
    /\ now' = now + d
    /\ redis' = [k \in {x \in DOMAIN redis : now + d < redis[x].exp} |-> redis[k]]
    /\ last' = Idle
    /\ UNCHANGED <<config, users, refreshTokenRows, auditLog, authQueue, nextId, issued, History>>

-----------------------------------------------------------------------------
(* Calls in flight.  A call that runs concurrently with others is a process *)
(* that takes one step per awaited operation; at is the step it stands      *)
(* before, the other fields are the locals of the handler.                  *)

NumProcs == 3

Procs == 1..NumProcs

NotStarted ==
    [at |-> "start", op |-> "none", arg |-> NoToken, user |-> 0, cached |-> NoToken,
     access |-> NoToken, refresh |-> NoToken, res |-> "none"]

\* the processes that have returned or thrown
Completed == {p \in Procs : pc[p].at = "done"}

-----------------------------------------------------------------------------
(* The use cases of AuthService against a store that holds one user *)

InitialUser(mfa) ==
    [email |-> <<"a">>, passwordHash |-> hashPassword(Str0ngPass),
     mfaEnabled |-> mfa, mfaSecret |-> IF mfa THEN "123456" ELSE "",
     emailVerified |-> FALSE, lastLoginAt |-> 0]

InitCommon ==
    /\ refreshTokenRows = <<>>
    /\ auditLog = <<>>
    /\ redis = <<>>
    /\ authQueue = <<>>
    /\ now = 0
    /\ calls = 0
    /\ nextId = 1
    /\ issued = {}
    /\ last = Idle
    /\ revokedAll = {}
    /\ usedRefresh = {}
    /\ consumed = {}
    /\ failedMfa = {}
    /\ attempts = <<>>
    /\ pc = [p \in Procs |-> NotStarted]

Init ==
    /\ InitCommon
    /\ config = [accessTokenExpiry |-> DefaultAccessTokenExpiry,
                 refreshTokenExpiry |-> DefaultRefreshTokenExpiry]
    /\ \E mfa \in BOOLEAN : users = <<InitialUser(mfa)>>

-----------------------------------------------------------------------------
(* TokenService called directly *)

GenerateTokenPair(userId) ==
    /\ refreshTokenRows' = pairRow(refreshTokenRows, userId)
    /\ redis' = pairGrant(redis, userId, users[userId].email)
    /\ nextId' = nextId + 2
    /\ issued' = issued \cup {pairAccessToken(userId, users[userId].email), pairRefreshToken(userId)}
    /\ last' = Result("generateTokenPair", "ok", userId,
                      pairAccessToken(userId, users[userId].email), pairRefreshToken(userId),
                      NoToken, NoToken)
    /\ UNCHANGED <<config, users, auditLog, authQueue, now, History>>

VerifyAccessToken(token) ==
    /\ last' = Result("verifyAccessToken", IF verifyAccessToken(token) THEN "ok" ELSE "null",
                      IF verifyAccessToken(token) THEN token.sub ELSE 0,
                      NoToken, NoToken, NoToken, token)
    /\ UNCHANGED <<config, users, refreshTokenRows, auditLog, redis, authQueue, now, nextId,
                   issued, History>>

VerifyRefreshToken(token) ==
    /\ last' = Result("verifyRefreshToken", IF verifyRefreshToken(token) THEN "ok" ELSE "null",
                      IF verifyRefreshToken(token) THEN token.sub ELSE 0,
                      NoToken, NoToken, NoToken, token)
    /\ UNCHANGED <<config, users, refreshTokenRows, auditLog, redis, authQueue, now, nextId,
                   issued, History>>

RevokeRefreshToken(token) ==
    /\ refreshTokenRows' = revokeRefreshToken(refreshTokenRows, token)
    /\ last' = Result("revokeRefreshToken", "ok", 0, NoToken, NoToken, NoToken, token)
    /\ UNCHANGED <<config, users, auditLog, redis, authQueue, now, nextId, issued, History>>

RevokeAllUserTokens(userId) ==
    /\ refreshTokenRows' = revokeAllRows(refreshTokenRows, userId)
    /\ redis' = addUserToBlacklist(redis, userId)
    /\ revokedAll' = revokedAll \cup AccessTokensOf(userId)
    /\ last' = Result("revokeAllUserTokens", "ok", userId, NoToken, NoToken, NoToken, NoToken)
    /\ UNCHANGED <<config, users, auditLog, authQueue, now, nextId, issued,
                   usedRefresh, consumed, failedMfa>>

\* expiresIn = 0: the call without expiresIn
RevokeAccessToken(jti, expiresIn) ==
    /\ redis' = setex(redis, <<"revoked_token", jti>>,
                      IF expiresIn # 0 THEN expiresIn ELSE RevokedTokenDefaultTtl, "true")
    /\ last' = Result("revokeAccessToken", "ok", 0, NoToken, NoToken, NoToken, NoToken)
    /\ UNCHANGED <<config, users, refreshTokenRows, auditLog, authQueue, now, nextId, issued, History>>

\* a sweep that deletes by age alone
cleanExpiredRows_aged(rt) ==
    [id \in {x \in DOMAIN rt :
                ~ \/ rt[x].expiresAt < now
                  \/ rt[x].createdAt < now - RetentionSeconds}
       |-> rt[id]]

\* the refreshToken table after the deleteMany of cleanExpiredTokens
cleanExpiredRows(rt) ==
    [id \in {x \in DOMAIN rt :
                ~ \/ rt[x].expiresAt < now
                  \/ /\ rt[x].isRevoked
                     /\ rt[x].createdAt < now - RetentionSeconds}
       |-> rt[id]]

CleanExpiredTokens ==
    /\ refreshTokenRows' = cleanExpiredRows(refreshTokenRows)
    /\ last' = Result("cleanExpiredTokens", "ok", 0, NoToken, NoToken, NoToken, NoToken)
    /\ UNCHANGED <<config, users, auditLog, redis, authQueue, now, nextId, issued, History>>

GenerateEmailVerificationToken(userId, email) ==
    /\ redis' = setex(redis, <<"email_verification", userId>>, EmailVerificationTtl,
                      emailVerificationToken(userId, email))
    /\ nextId' = nextId + 1
    /\ issued' = issued \cup {emailVerificationToken(userId, email)}
    /\ last' = Result("generateEmailVerificationToken", "ok", userId, NoToken, NoToken, NoToken,
                      emailVerificationToken(userId, email))
    /\ UNCHANGED <<config, users, refreshTokenRows, auditLog, authQueue, now, History>>

GeneratePasswordResetToken(userId, email) ==
    /\ redis' = setex(redis, <<"password_reset", userId>>, PasswordResetTtl,
                      passwordResetToken(userId, email))
    /\ nextId' = nextId + 1
    /\ issued' = issued \cup {passwordResetToken(userId, email)}
    /\ last' = Result("generatePasswordResetToken", "ok", userId, NoToken, NoToken, NoToken,
                      passwordResetToken(userId, email))
    /\ UNCHANGED <<config, users, refreshTokenRows, auditLog, authQueue, now, History>>

VerifyEmailToken(token) ==
    /\ redis' = IF verifyEmailToken(token) THEN del(redis, <<"email_verification", token.sub>>)
                ELSE redis
    /\ consumed' = IF verifyEmailToken(token) THEN consumed \cup {token} ELSE consumed
    /\ last' = Result("verifyEmailToken", IF verifyEmailToken(token) THEN "ok" ELSE "null",
                      IF verifyEmailToken(token) THEN token.sub ELSE 0,
                      NoToken, NoToken, NoToken, token)
    /\ UNCHANGED <<config, users, refreshTokenRows, auditLog, authQueue, now, nextId, issued,
                   revokedAll, usedRefresh, failedMfa>>

VerifyPasswordResetToken(token) ==
    /\ redis' = IF verifyPasswordResetToken(token) THEN del(redis, <<"password_reset", token.sub>>)
                ELSE redis
    /\ consumed' = IF verifyPasswordResetToken(token) THEN consumed \cup {token} ELSE consumed
    /\ last' = Result("verifyPasswordResetToken",
                      IF verifyPasswordResetToken(token) THEN "ok" ELSE "null",
                      IF verifyPasswordResetToken(token) THEN token.sub ELSE 0,
                      NoToken, NoToken, NoToken, token)
    /\ UNCHANGED <<config, users, refreshTokenRows, auditLog, authQueue, now, nextId, issued,
                   revokedAll, usedRefresh, failedMfa>>

\* the call just made joins the observed calls
Observe(op, subject) ==
    attempts' = Append(attempts, [op |-> op, subject |-> subject, at |-> now, res |-> last'.res])

\* one more step within the bound
Call == calls < MaxCalls /\ calls' = calls + 1 /\ attempts' = attempts /\ pc' = pc

Next ==
    \/ \E email \in EmailInputs, password \in PasswordInputs : Call /\ register(email, password)
    \/ \E email \in EmailInputs, password \in PasswordInputs, ip \in IpInputs :
          Call /\ login(email, password, ip)
    \/ \E t \in Presented("mfa"), c \in MfaCodes : Call /\ verifyMfaAndLogin(t, c)
    \/ \E t \in Presented("refresh") : Call /\ refreshTokens(t)
    \/ \E u \in DOMAIN users, t \in Presented("refresh") \cup {NoToken} : Call /\ logout(u, t)
    \/ \E email \in EmailInputs : Call /\ sendPasswordResetEmail(email)
    \/ \E t \in Presented("password_reset"), password \in PasswordInputs :
          Call /\ resetPassword(t, password)
    \/ \E u \in DOMAIN users, old \in PasswordInputs, new \in PasswordInputs :
          Call /\ changePassword(u, old, new)
    \/ Call /\ processJob
    \/ \E d \in TickSteps : Call /\ Tick(d)

Spec == Init /\ [][Next]_vars

-----------------------------------------------------------------------------
(* TokenService alone, for two users and the expiry settings of AccessExpiryInputs *)

AccessExpiryInputs == { DefaultAccessTokenExpiry, <<"1","y">> }
ExpiresInInputs == {0, 300}

SecondUser ==
    [email |-> <<"b">>, passwordHash |-> hashPassword(N3wPassw0rd),
     mfaEnabled |-> FALSE, mfaSecret |-> "", emailVerified |-> FALSE, lastLoginAt |-> 0]

InitTok ==
    /\ InitCommon
    /\ \E a \in AccessExpiryInputs :
          config = [accessTokenExpiry |-> a, refreshTokenExpiry |-> DefaultRefreshTokenExpiry]
    /\ users = <<InitialUser(FALSE), SecondUser>>

AccessIds == {t.jti : t \in {x \in issued : x.type = "undefined"}}

NextTok ==
    \/ \E u \in DOMAIN users : Call /\ GenerateTokenPair(u)
    \/ \E t \in TokenInputs \cup ForgedInputs : Call /\ VerifyAccessToken(t)
    \/ \E t \in TokenInputs \cup ForgedInputs : Call /\ VerifyRefreshToken(t)
    \/ \E t \in TokenInputs \cup ForgedInputs \cup {Garbage} : Call /\ RevokeRefreshToken(t)
    \/ \E u \in DOMAIN users : Call /\ RevokeAllUserTokens(u)
    \/ \E j \in AccessIds, e \in ExpiresInInputs : Call /\ RevokeAccessToken(j, e)
    \/ Call /\ CleanExpiredTokens
    \/ \E d \in TickSteps : Call /\ Tick(d)

SpecTok == InitTok /\ [][NextTok]_vars

-----------------------------------------------------------------------------
(* Access tokens next to refresh tokens and single-use tokens: what a       *)
(* revocation touches, and verification while a read of the cache fails     *)

VerifyAccessTokenWith(token, markerReadFails, grantReadFails) ==
    /\ last' = Result(IF markerReadFails \/ grantReadFails
                      THEN "verifyAccessToken, a cache read failing" ELSE "verifyAccessToken",
                      IF verifyAccessTokenWith(token, markerReadFails, grantReadFails)
                      THEN "ok" ELSE "null",
                      IF verifyAccessTokenWith(token, markerReadFails, grantReadFails)
                      THEN token.sub ELSE 0,
                      NoToken, NoToken, NoToken, token)
    /\ UNCHANGED <<config, users, refreshTokenRows, auditLog, redis, authQueue, now, nextId,
                   issued, History>>

NextAccess ==
    \/ \E u \in DOMAIN users : Call /\ GenerateTokenPair(u)
    \/ \E u \in DOMAIN users : Call /\ GeneratePasswordResetToken(u, users[u].email)
    \/ \E t \in Presented("undefined"), markerReadFails \in BOOLEAN, grantReadFails \in BOOLEAN :
          Call /\ VerifyAccessTokenWith(t, markerReadFails, grantReadFails)
    \/ \E t \in Presented("refresh") : Call /\ RevokeRefreshToken(t)
    \/ \E t \in Presented("refresh") : Call /\ refreshTokens(t)
    \/ \E u \in DOMAIN users : Call /\ RevokeAllUserTokens(u)
    \/ \E j \in AccessIds, e \in ExpiresInInputs :
          /\ calls < MaxCalls /\ calls' = calls + 1 /\ pc' = pc
          /\ RevokeAccessToken(j, e)
          /\ Observe("revokeAccessToken", j)
    \/ \E d \in TickSteps : Call /\ Tick(d)

SpecAccess == InitTok /\ [][NextAccess]_vars

-----------------------------------------------------------------------------
(* The use cases that verify a token, while the lookup of the token fails:  *)
(* prisma.refreshToken.findUnique or redisService.get rejects inside the    *)
(* try block of the verifier, whose catch block returns null                *)

\* TRUE iff verifyRefreshToken returns token data when findUnique may reject
verifyRefreshTokenWith(token, storeFails) ==
    /\ jwtVerify(token, FALSE)
    /\ token.type = "refresh"
    /\ ~storeFails
    /\ verifyRefreshToken(token)

\* TRUE iff the single-use verifier returns token data when get may reject
verifySingleUseWith(type, token, cacheFails) ==
    /\ jwtVerify(token, FALSE)
    /\ token.type = type
    /\ ~getRejects(cacheFails)
    /\ verifySingleUse(type, token)

\* the lookup is reached: the signature, expiry and type checks have passed
LookupReached(type, token) == jwtVerify(token, FALSE) /\ token.type = type

Unaffected == <<config, users, refreshTokenRows, auditLog, redis, authQueue, now, nextId,
                issued, History>>

RefreshTokensWith(refreshToken, storeFails) ==
    IF storeFails /\ LookupReached("refresh", refreshToken)
    THEN /\ last' = Result("refreshTokens, the store failing",
                           IF verifyRefreshTokenWith(refreshToken, storeFails)
                           THEN "ok" ELSE "Unauthorized",
                           0, NoToken, NoToken, NoToken, refreshToken)
         /\ UNCHANGED Unaffected
    ELSE refreshTokens(refreshToken)

VerifyEmailWith(token, cacheFails) ==
    IF cacheFails /\ LookupReached("email_verification", token)
    THEN /\ last' = Result("verifyEmail, the cache failing",
                           IF verifySingleUseWith("email_verification", token, cacheFails)
                           THEN "ok" ELSE "BadRequest",
                           0, NoToken, NoToken, NoToken, token)
         /\ UNCHANGED Unaffected
    ELSE verifyEmail(token)

ResetPasswordWith(token, newPassword, cacheFails) ==
    IF cacheFails /\ LookupReached("password_reset", token)
    THEN /\ last' = Result("resetPassword, the cache failing",
                           IF verifySingleUseWith("password_reset", token, cacheFails)
                           THEN "ok" ELSE "BadRequest",
                           0, NoToken, NoToken, NoToken, token)
         /\ UNCHANGED Unaffected
    ELSE resetPassword(token, newPassword)

\* the refreshToken table after a revokeRefreshToken whose updateMany may
\* reject: the catch block of revokeRefreshToken drops the error
revokeRefreshTokenWith(rt, token, updateFails) ==
    IF updateFails THEN rt ELSE revokeRefreshToken(rt, token)

\* refreshTokens while the updateMany of its revoke step fails
RefreshTokensRevokeFailing(refreshToken) ==
    LET ok == verifyRefreshToken(refreshToken) /\ refreshToken.sub \in DOMAIN users
        userId == refreshToken.sub
    IN  /\ ok
        /\ redis' = pairGrant(redis, userId, users[userId].email)
        /\ refreshTokenRows' =
              revokeRefreshTokenWith(pairRow(refreshTokenRows, userId), refreshToken, TRUE)
        /\ nextId' = nextId + 2
        /\ issued' = issued \cup {pairAccessToken(userId, users[userId].email),
                                  pairRefreshToken(userId)}
        /\ auditLog' = logAuthEvent(auditLog, userId, "TOKEN_REFRESH")
        /\ usedRefresh' = usedRefresh \cup {refreshToken}
        /\ last' = Result("refreshTokens, the revoke failing", "ok", userId,
                          pairAccessToken(userId, users[userId].email),
                          pairRefreshToken(userId), NoToken, refreshToken)
        /\ UNCHANGED <<config, users, authQueue, now, revokedAll, consumed, failedMfa>>

NextOutage ==
    \/ \E u \in DOMAIN users : Call /\ GenerateTokenPair(u)
    \/ \E u \in DOMAIN users : Call /\ GenerateEmailVerificationToken(u, users[u].email)
    \/ \E u \in DOMAIN users : Call /\ GeneratePasswordResetToken(u, users[u].email)
    \/ \E t \in Presented("refresh"), storeFails \in BOOLEAN :
          Call /\ RefreshTokensWith(t, storeFails)
    \/ \E t \in Presented("email_verification"), cacheFails \in BOOLEAN :
          Call /\ VerifyEmailWith(t, cacheFails)
    \/ \E t \in Presented("password_reset"), cacheFails \in BOOLEAN :
          Call /\ ResetPasswordWith(t, N3wPassw0rd, cacheFails)
    \/ \E t \in Presented("refresh") : Call /\ RefreshTokensRevokeFailing(t)

SpecOutage == InitTok /\ [][NextOutage]_vars

-----------------------------------------------------------------------------
(* The periodic sweep next to issuance and revocation, for the refresh-token *)
(* lifetimes of RefreshExpiryInputs                                          *)

RefreshExpiryInputs == { DefaultRefreshTokenExpiry, <<"2","w">> }
SweepTickSteps == {300, 604800, 691200}

InitSweep ==
    /\ InitCommon
    /\ \E r \in RefreshExpiryInputs :
          config = [accessTokenExpiry |-> DefaultAccessTokenExpiry, refreshTokenExpiry |-> r]
    /\ users = <<InitialUser(FALSE)>>

NextSweep ==
    \/ \E u \in DOMAIN users : Call /\ GenerateTokenPair(u)
    \/ \E t \in Presented("refresh") :
          /\ calls < MaxCalls /\ calls' = calls + 1 /\ pc' = pc
          /\ RevokeRefreshToken(t)
          /\ Observe("revokeRefreshToken", t.jti)
    \/ Call /\ CleanExpiredTokens
    \/ \E d \in SweepTickSteps : Call /\ Tick(d)

SpecSweep == InitSweep /\ [][NextSweep]_vars

-----------------------------------------------------------------------------
(* The MFA login: challenges issued by login and presented, also repeatedly, *)
(* to verifyMfaAndLogin                                                      *)

NextMfa ==
    \/ \E email \in EmailInputs, ip \in IpInputs : Call /\ login(email, Str0ngPass, ip)
    \/ \E t \in Presented("mfa"), c \in MfaCodes :
          /\ calls < MaxCalls /\ calls' = calls + 1 /\ pc' = pc
          /\ verifyMfaAndLogin(t, c)
          /\ Observe("verifyMfaAndLogin", t)
    \/ \E d \in TickSteps : Call /\ Tick(d)

SpecMfa == Init /\ [][NextMfa]_vars

-----------------------------------------------------------------------------
(* sendPasswordResetEmail and sendVerificationEmail for two spellings of the *)
(* email of one account                                                      *)

NotifyEmailInputs == { <<"a">>, <<" ","A">> }

NextNotify ==
    \/ \E email \in NotifyEmailInputs :
          /\ calls < MaxCalls /\ calls' = calls + 1 /\ pc' = pc
          /\ sendPasswordResetEmail(email)
          /\ Observe("sendPasswordResetEmail", email)
    \/ \E email \in NotifyEmailInputs :
          /\ calls < MaxCalls /\ calls' = calls + 1 /\ pc' = pc
          /\ sendVerificationEmail(email)
          /\ Observe("sendVerificationEmail", email)
    \/ Call /\ Tick(300)

SpecNotify == Init /\ [][NextNotify]_vars

-----------------------------------------------------------------------------
(* Every verifier of TokenService applied to the tokens of every kind *)

NextKinds ==
    \/ \E u \in DOMAIN users : Call /\ GenerateTokenPair(u)
    \/ \E u \in DOMAIN users : Call /\ GenerateEmailVerificationToken(u, users[u].email)
    \/ \E u \in DOMAIN users : Call /\ GeneratePasswordResetToken(u, users[u].email)
    \/ \E t \in TokenInputs : Call /\ VerifyAccessToken(t)
    \/ \E t \in TokenInputs : Call /\ VerifyRefreshToken(t)
    \/ \E t \in TokenInputs : Call /\ VerifyEmailToken(t)
    \/ \E t \in TokenInputs : Call /\ VerifyPasswordResetToken(t)

SpecKinds == InitTok /\ [][NextKinds]_vars

-----------------------------------------------------------------------------
(* register next to logout, and resetPassword next to the calls that lead   *)
(* to it                                                                    *)

NextRegister ==
    \/ \E email \in EmailInputs, password \in PasswordInputs : Call /\ register(email, password)
    \/ \E u \in DOMAIN users, t \in Presented("refresh") \cup {NoToken} : Call /\ logout(u, t)

SpecRegister == Init /\ [][NextRegister]_vars

NextReset ==
    \/ \E ip \in IpInputs : Call /\ login(<<"a">>, Str0ngPass, ip)
    \/ Call /\ sendPasswordResetEmail(<<"a">>)
    \/ Call /\ processJob
    \/ \E t \in Presented("password_reset"), password \in PasswordInputs :
          Call /\ resetPassword(t, password)

SpecReset == Init /\ [][NextReset]_vars

NextSingleUse ==
    \/ \E u \in DOMAIN users : Call /\ GenerateEmailVerificationToken(u, users[u].email)
    \/ \E u \in DOMAIN users : Call /\ GeneratePasswordResetToken(u, users[u].email)
    \/ \E t \in TokenInputs \cup ForgedInputs : Call /\ VerifyEmailToken(t)
    \/ \E t \in TokenInputs \cup ForgedInputs : Call /\ VerifyPasswordResetToken(t)
    \/ \E d \in TickSteps : Call /\ Tick(d)

SpecSingleUse == InitTok /\ [][NextSingleUse]_vars

-----------------------------------------------------------------------------
(* Login alone, long enough to exhaust the login rate limit *)

MaxLogins == 6

NextLogin ==
    \/ \E email \in EmailInputs, password \in PasswordInputs, ip \in IpInputs :
          /\ calls < MaxLogins
          /\ calls' = calls + 1 /\ pc' = pc
          /\ login(email, password, ip)
          /\ Observe("login", <<findUserByEmail(email), ip>>)
    \/ \E d \in TickSteps :
          calls < MaxLogins /\ calls' = calls + 1 /\ pc' = pc /\ Tick(d) /\ attempts' = attempts

SpecLogin == Init /\ [][NextLogin]_vars

-----------------------------------------------------------------------------
(* RedisService.checkRateLimit called directly, for the subjects of RateKeys *)

MaxChecks == 9

RateKeys == { <<"login_attempts", u, ip>> : u \in {1, 2}, ip \in IpInputs }
RateTickSteps == {100, 300}

CheckRateLimit(key, limit, windowSeconds) ==
    /\ redis' = rateIncrement(redis, key, windowSeconds)
    /\ last' = Result("checkRateLimit",
                      IF checkRateLimit(key, limit, windowSeconds) THEN "true" ELSE "false",
                      0, NoToken, NoToken, NoToken, NoToken)
    /\ UNCHANGED <<config, users, refreshTokenRows, auditLog, authQueue, now, nextId, issued, History>>

NextRate ==
    \/ \E key \in RateKeys :
          /\ calls < MaxChecks
          /\ calls' = calls + 1 /\ pc' = pc
          /\ CheckRateLimit(key, 5, 300)
          /\ Observe("checkRateLimit", key)
    \/ \E d \in RateTickSteps :
          calls < MaxChecks /\ calls' = calls + 1 /\ pc' = pc /\ Tick(d) /\ attempts' = attempts

SpecRate == Init /\ [][NextRate]_vars

-----------------------------------------------------------------------------
(* sendPasswordResetEmail alone, for a registered and an unregistered email *)

MaxResets == 8

ResetEmailInputs == { <<"a">>, <<"b">> }

NextResetEmail ==
    \/ \E email \in ResetEmailInputs :
          /\ calls < MaxResets
          /\ calls' = calls + 1 /\ pc' = pc
          /\ sendPasswordResetEmail(email)
          /\ Observe("sendPasswordResetEmail", email)
    \/ calls < MaxResets /\ calls' = calls + 1 /\ pc' = pc /\ Tick(300) /\ attempts' = attempts

SpecResetEmail == Init /\ [][NextResetEmail]_vars

-----------------------------------------------------------------------------
(* PasswordService.validatePasswordStrength applied to the passwords of     *)
(* PasswordSamples: a head, a run of three characters and a tail, passwords *)
(* of the longest accepted length and one more, and common passwords        *)

SampleHeads == { <<"Z","9","!">>, <<"z","k","!">>, <<"Z","k","9">>, <<"z","k","m">> }
SampleRuns ==
    { <<"a","b","c">>, <<"c","b","a">>, <<"a","B","c">>, <<"C","B","A">>,
      <<"C","b","a">>, <<"q","w","e">>, <<"e","w","q">>, <<"Q","w","E">>,
      <<"a","s","d">>, <<"z","x","c">>, <<"m","n","b">>, <<"1","2","3">>,
      <<"3","2","1">>, <<"8","9","0">>, <<"a","a","a">>, <<"a","A","a">>,
      <<"A","A","A">>, <<"1","1","1">>, <<"!","!","!">>, <<"k","7","k">>,
      <<"x","!","x">>, <<"-","_","-">>, <<"a","c","e">>, <<"a"," ","b">>,
      <<"x","y","z">>, <<"z","y","x">> }
SampleTails == { <<>>, <<"p">>, <<"p","t">>, <<"P","!","t","7">> }
SampleCommon ==
    { <<"p","a","s","s","w","o","r","d">>,
      <<"P","a","s","s","w","o","r","d">>,
      <<"p","a","s","s","w","o","r","d","1","2","3">>,
      <<"P","a","s","s","w","o","r","d","1","2","3">>,
      <<"P","a","s","s","W","o","r","d","!","2","3">>,
      <<"W","e","l","c","o","m","e">>, <<"l","e","t","m","e","i","n">> }

\* n characters without a sequence or a repetition: Z, 9, then k and ! in turn
Filler(n) == [i \in 1..n |-> IF i = 1 THEN "Z" ELSE IF i = 2 THEN "9"
                             ELSE IF i % 2 = 1 THEN "k" ELSE "!"]

PasswordSamples ==
    {h \o r \o t : h \in SampleHeads, r \in SampleRuns, t \in SampleTails}
        \cup SampleCommon
        \cup {Filler(n) : n \in {minLength - 1, minLength, maxLength, maxLength + 1}}

\* one application to one password
ValidatePasswordStrength(password) ==
    /\ calls = 0
    /\ calls' = calls + 1 /\ pc' = pc
    /\ last' = Result("validatePasswordStrength",
                      IF validatePasswordStrength(password) THEN "ok" ELSE "ValidationError",
                      0, NoToken, NoToken, NoToken, password)
    /\ UNCHANGED <<config, users, refreshTokenRows, auditLog, redis, authQueue, now,
                   nextId, issued, History, attempts>>

NextPassword == \E password \in PasswordSamples : ValidatePasswordStrength(password)

SpecPassword == Init /\ [][NextPassword]_vars

-----------------------------------------------------------------------------
(* TokenService.parseExpiryToSeconds applied to the settings of ExpiryInputs *)

MaxDigits == 2

DigitStrings == UNION {[1..k -> Range(DigitChars)] : k \in 0..MaxDigits}

ExpirySuffixes ==
    { <<>>, <<"s">>, <<"m">>, <<"h">>, <<"d">>, <<"w">>, <<"y">>, <<"M">>, <<" ">>,
      <<"m","s">>, <<".","5","h">> }

ExpiryOddities ==
    { <<"-","5","m">>, <<" ","5","m">>, <<"5"," ","m">>, <<"m","5">>, <<"0","0","7","d">>,
      <<"1","0","0","0">>, <<"1","5","m","\n">> }

ExpiryInputs == {d \o u : d \in DigitStrings, u \in ExpirySuffixes} \cup ExpiryOddities

\* one application to one setting
ParseExpiryToSeconds(expiry) ==
    /\ calls = 0
    /\ calls' = calls + 1 /\ pc' = pc
    /\ last' = Result("parseExpiryToSeconds", parseExpiryToSeconds(expiry),
                      0, NoToken, NoToken, NoToken, expiry)
    /\ UNCHANGED <<config, users, refreshTokenRows, auditLog, redis, authQueue, now,
                   nextId, issued, History, attempts>>

NextExpiry == \E expiry \in ExpiryInputs : ParseExpiryToSeconds(expiry)

SpecExpiry == Init /\ [][NextExpiry]_vars

-----------------------------------------------------------------------------
(* refreshTokens as concurrent calls.  The steps are the awaited calls that *)
(* read or write the refreshToken table: verifyRefreshToken (with the user  *)
(* lookup that follows it), generateTokenPair, and revokeRefreshToken (with *)
(* the audit row and the return that follow it).                            *)

InitRace ==
    /\ InitCommon
    /\ config = [accessTokenExpiry |-> DefaultAccessTokenExpiry,
                 refreshTokenExpiry |-> DefaultRefreshTokenExpiry]
    /\ users = <<InitialUser(FALSE)>>

\* the first login of the user, before any other call
SessionStart ==
    /\ issued = {}
    /\ \E ip \in IpInputs : login(<<"a">>, Str0ngPass, ip)
    /\ UNCHANGED <<calls, attempts, pc>>

RefreshVerify(p, refreshToken) ==
    /\ pc[p].at = "start"
    /\ pc' = [pc EXCEPT ![p] =
                IF verifyRefreshToken(refreshToken) /\ refreshToken.sub \in DOMAIN users
                THEN [NotStarted EXCEPT !.at = "generateTokenPair", !.op = "refreshTokens",
                                        !.arg = refreshToken, !.user = refreshToken.sub]
                ELSE [NotStarted EXCEPT !.at = "done", !.op = "refreshTokens",
                                        !.arg = refreshToken, !.res = "Unauthorized"]]
    /\ UNCHANGED <<config, users, refreshTokenRows, auditLog, redis, authQueue, now, calls,
                   nextId, issued, last, History, attempts>>

RefreshIssue(p) ==
    /\ pc[p].at = "generateTokenPair"
    /\ refreshTokenRows' = pairRow(refreshTokenRows, pc[p].user)
    /\ redis' = pairGrant(redis, pc[p].user, users[pc[p].user].email)
    /\ nextId' = nextId + 2
    /\ pc' = [pc EXCEPT ![p].at = "revokeRefreshToken",
                        ![p].access = pairAccessToken(pc[p].user, users[pc[p].user].email),
                        ![p].refresh = pairRefreshToken(pc[p].user)]
    /\ UNCHANGED <<config, users, auditLog, authQueue, now, calls, issued, last, History,
                   attempts>>

RefreshRevoke(p) ==
    /\ pc[p].at = "revokeRefreshToken"
    /\ refreshTokenRows' = revokeRefreshToken(refreshTokenRows, pc[p].arg)
    /\ auditLog' = logAuthEvent(auditLog, pc[p].user, "TOKEN_REFRESH")
    /\ issued' = issued \cup {pc[p].access, pc[p].refresh}
    /\ usedRefresh' = usedRefresh \cup {pc[p].arg}
    /\ pc' = [pc EXCEPT ![p].at = "done", ![p].res = "ok"]
    /\ UNCHANGED <<config, users, redis, authQueue, now, calls, nextId, last,
                   revokedAll, consumed, failedMfa, attempts>>

NextRefreshRace ==
    \/ SessionStart
    \/ \E p \in Procs, t \in Presented("refresh") : RefreshVerify(p, t)
    \/ \E p \in Procs : RefreshIssue(p)
    \/ \E p \in Procs : RefreshRevoke(p)

SpecRefreshRace == InitRace /\ [][NextRefreshRace]_vars

\* the same calls next to one logout or password change of the signed-in user
NextRevokeRace ==
    \/ NextRefreshRace
    \/ \E u \in DOMAIN users : issued # {} /\ calls = 0 /\ Call /\ logout(u, NoToken)
    \/ \E u \in DOMAIN users :
          issued # {} /\ calls = 0 /\ Call /\ changePassword(u, Str0ngPass, N3wPassw0rd)

SpecRevokeRace == InitRace /\ [][NextRevokeRace]_vars

-----------------------------------------------------------------------------
(* generateTokenPair as concurrent calls, the cache write of which may      *)
(* fail.  The steps are the awaited calls: the two signAsync with the ids   *)
(* drawn before them, prisma.refreshToken.create, and redisService.setex    *)
(* followed by the return.                                                  *)

\* the clock advances once while the calls run
IssueTickSteps == {300, 604800}

IssueSign(p, userId) ==
    /\ pc[p].at = "start"
    /\ pc' = [pc EXCEPT ![p] =
                [NotStarted EXCEPT !.at = "create", !.op = "generateTokenPair", !.user = userId,
                                   !.access = pairAccessToken(userId, users[userId].email),
                                   !.refresh = pairRefreshToken(userId)]]
    /\ nextId' = nextId + 2
    /\ UNCHANGED <<config, users, refreshTokenRows, auditLog, redis, authQueue, now, calls,
                   issued, last, History, attempts>>

IssueCreate(p) ==
    /\ pc[p].at = "create"
    /\ refreshTokenRows' = createRow(refreshTokenRows, pc[p].refresh.jti, pc[p].user)
    /\ pc' = [pc EXCEPT ![p].at = "setex"]
    /\ UNCHANGED <<config, users, auditLog, redis, authQueue, now, calls, nextId,
                   issued, last, History, attempts>>

\* writeFails: redisService.setex fails and generateTokenPair throws
IssueSetex(p, writeFails) ==
    /\ pc[p].at = "setex"
    /\ redis' = IF setexRejects(writeFails) THEN redis
                ELSE cacheGrant(redis, pc[p].access.jti, pc[p].user, users[pc[p].user].email)
    /\ issued' = IF setexRejects(writeFails) THEN issued
                 ELSE issued \cup {pc[p].access, pc[p].refresh}
    /\ pc' = [pc EXCEPT ![p].at = "done",
                        ![p].res = IF setexRejects(writeFails) THEN "error" ELSE "ok"]
    /\ UNCHANGED <<config, users, refreshTokenRows, auditLog, authQueue, now, calls, nextId,
                   last, History, attempts>>

NextIssue ==
    \/ \E p \in Procs, u \in DOMAIN users : IssueSign(p, u)
    \/ \E p \in Procs : IssueCreate(p)
    \/ \E p \in Procs, writeFails \in BOOLEAN : IssueSetex(p, writeFails)
    \/ \E d \in IssueTickSteps : now = 0 /\ Call /\ Tick(d)

SpecIssue == InitRace /\ [][NextIssue]_vars

-----------------------------------------------------------------------------
(* verifyEmailToken and verifyPasswordResetToken as concurrent calls.  The  *)
(* steps are the two awaited cache calls: get (after the signature and type *)
(* checks, and followed by the comparison) and del (followed by the return) *)

\* the first token of a purpose is issued to the user
SingleUseStart(type) ==
    /\ \A t \in issued : t.type # type
    /\ \/ type = "email_verification" /\ GenerateEmailVerificationToken(1, users[1].email)
       \/ type = "password_reset" /\ GeneratePasswordResetToken(1, users[1].email)
    /\ UNCHANGED <<calls, attempts, pc>>

SingleUseGet(p, type, token) ==
    /\ pc[p].at = "start"
    /\ pc' = [pc EXCEPT ![p] =
                IF /\ jwtVerify(token, FALSE)
                   /\ token.type = type
                   /\ redisLive(<<type, token.sub>>)
                   /\ redisGet(<<type, token.sub>>) = token
                THEN [NotStarted EXCEPT !.at = "del", !.op = type, !.arg = token,
                                        !.cached = redisGet(<<type, token.sub>>)]
                ELSE [NotStarted EXCEPT !.at = "done", !.op = type, !.arg = token,
                                        !.res = "null"]]
    /\ UNCHANGED <<config, users, refreshTokenRows, auditLog, redis, authQueue, now, calls,
                   nextId, issued, last, History, attempts>>

SingleUseDel(p) ==
    /\ pc[p].at = "del"
    /\ redis' = del(redis, <<pc[p].op, pc[p].arg.sub>>)
    /\ consumed' = consumed \cup {pc[p].arg}
    /\ pc' = [pc EXCEPT ![p].at = "done", ![p].user = pc[p].arg.sub, ![p].res = "ok"]
    /\ UNCHANGED <<config, users, refreshTokenRows, auditLog, authQueue, now, calls,
                   nextId, issued, last, revokedAll, usedRefresh, failedMfa, attempts>>

NextSingleUseRace ==
    \/ \E type \in {"email_verification", "password_reset"} : SingleUseStart(type)
    \/ \E p \in Procs, type \in {"email_verification", "password_reset"} :
          \E t \in Presented(type) : SingleUseGet(p, type, t)
    \/ \E p \in Procs : SingleUseDel(p)

SpecSingleUseRace == InitRace /\ [][NextSingleUseRace]_vars

-----------------------------------------------------------------------------
(* Properties *)

AccessGrants == {k \in DOMAIN redis : k[1] = "access_token"}

RefreshTokensOf(userId) == {t \in issued : t.type = "refresh" /\ t.sub = userId}

\* C1: after revokeAllUserTokens(userId), verifyAccessToken returns null for every
\* unexpired access token issued to that user before the call
C1_RevokeAllInvalidatesAccess ==
    \A t \in revokedAll : now < t.exp => ~verifyAccessToken(t)

\* C2: the pair a call has just issued verifies: verifyAccessToken on the access
\* token and verifyRefreshToken on the refresh token succeed with the user's id,
\* also when the user was logged out everywhere before
C2_IssuedPairVerifies ==
    last.access # NoToken =>
        /\ verifyAccessToken(last.access)
        /\ last.access.sub = last.user
        /\ verifyRefreshToken(last.refresh)
        /\ last.refresh.sub = last.user

C2_Witness ==
    /\ last.op = "login"
    /\ last.res = "ok"
    /\ last.access # NoToken
    /\ redisLive(<<"user_blacklist", last.user>>)

\* C3: a refreshTokens call presenting a refresh token an earlier call succeeded
\* with fails Unauthorized and issues nothing
C3_RefreshSingleUse ==
    [][\A t \in usedRefresh :
          (last'.op = "refreshTokens" /\ Call /\ refreshTokens(t)) =>
              /\ last'.res = "Unauthorized"
              /\ nextId' = nextId
              /\ issued' = issued
              /\ refreshTokenRows' = refreshTokenRows
              /\ redis' = redis]_vars

C3_Witness ==
    /\ last.op = "refreshTokens"
    /\ last.res = "Unauthorized"
    /\ last.arg \in usedRefresh

\* C4: a single-use token verifies right after it is issued, the verification
\* returns the token's user, and once a verification has succeeded with it the
\* token never verifies again, expired or not
C4_SingleUseOnce ==
    /\ last.op = "generateEmailVerificationToken" => verifyEmailToken(last.arg)
    /\ last.op = "generatePasswordResetToken" => verifyPasswordResetToken(last.arg)
    /\ (last.op \in {"verifyEmailToken", "verifyPasswordResetToken"} /\ last.res = "ok") =>
          (last.user = last.arg.sub /\ last.arg \in consumed)
    /\ \A t \in consumed : ~verifyEmailToken(t) /\ ~verifyPasswordResetToken(t)

C4_Witness ==
    /\ last.op = "verifyPasswordResetToken"
    /\ last.res = "null"
    /\ last.arg \in consumed
    /\ jwtVerify(last.arg, FALSE)

\* C5: after a successful resetPassword(token, newPassword) the user's password
\* hash is the hash of newPassword and no refresh token issued to the user
\* before verifies
C5_ResetRevokesSessions ==
    [][\A t \in Presented("password_reset"), p \in PasswordInputs :
          (last'.op = "resetPassword" /\ last'.res = "ok" /\ Call /\ resetPassword(t, p)) =>
              /\ verifyPassword(p, users'[t.sub].passwordHash)
              /\ \A r \in RefreshTokensOf(t.sub) : ~verifyRefreshToken(r)']_vars

C5_Witness ==
    /\ last.op = "resetPassword"
    /\ last.res = "ok"
    /\ \E r \in RefreshTokensOf(last.user) : jwtVerify(r, FALSE) /\ r.jti \in DOMAIN refreshTokenRows

\* C6: verifyAccessToken returns a payload only while the grant of the token's
\* id is in the cache; without it a signed, unexpired access token is invalid
C6_GrantRequired ==
    /\ \A t \in issued : verifyAccessToken(t) => redisLive(<<"access_token", t.jti>>)
    /\ (last.op = "verifyAccessToken" /\ ~redisLive(<<"access_token", last.arg.jti>>)) =>
          last.res = "null"

C6_Witness ==
    /\ last.op = "verifyAccessToken"
    /\ last.res = "null"
    /\ last.arg.type = "undefined"
    /\ jwtVerify(last.arg, FALSE)
    /\ ~isTokenRevoked(last.arg.jti)
    /\ ~redisLive(<<"access_token", last.arg.jti>>)

\* the conditions the specification gives for a refresh token to verify
RefreshValid(t) ==
    /\ t.sig
    /\ t.type = "refresh"
    /\ now < t.exp
    /\ t.jti \in DOMAIN refreshTokenRows
    /\ ~refreshTokenRows[t.jti].isRevoked
    /\ refreshTokenRows[t.jti].expiresAt > now

CanonicalEmails ==
    {e \in EmailInputs \cup {NormalizedEmail[x] : x \in EmailInputs} : trim(toLowerCase(e)) = e}

UniqueEmails ==
    \A u, v \in DOMAIN users :
        /\ users[u].email \in CanonicalEmails
        /\ users[u].email = users[v].email => u = v

\* C8: no two users share an email, every stored email is lower-cased and
\* trimmed, and a register call whose normalized email belongs to a user fails
\* Conflict and creates no user, no tokens and no job
C8_UniqueEmail ==
    [][/\ UniqueEmails
       /\ UniqueEmails'
       /\ \A e \in EmailInputs, p \in PasswordInputs :
            (/\ last'.op = "register"
             /\ \E u \in DOMAIN users : users[u].email = trim(toLowerCase(e))
             /\ Call /\ register(e, p)) =>
                /\ last'.res = "Conflict"
                /\ UNCHANGED <<users, refreshTokenRows, redis, issued, authQueue, nextId, auditLog>>]_vars

C8_Witness ==
    /\ last.op = "register"
    /\ last.res = "Conflict"
    /\ Cardinality(DOMAIN users) = 2

\* the user a login names with the right password, 0 otherwise
Authenticated(e, p) ==
    IF \E u \in DOMAIN users :
          users[u].email = trim(toLowerCase(e)) /\ verifyPassword(p, users[u].passwordHash)
    THEN CHOOSE u \in DOMAIN users :
          users[u].email = trim(toLowerCase(e)) /\ verifyPassword(p, users[u].passwordHash)
    ELSE 0

NoSession ==
    /\ last'.access = NoToken
    /\ last'.refresh = NoToken
    /\ refreshTokenRows' = refreshTokenRows
    /\ AccessGrants' = AccessGrants
    /\ users' = users

\* C9 as stated: every login with the right password for an MFA-enabled user
\* returns requiresMfa with a challenge token and creates no session
C9_MfaLoginAlwaysChallenges ==
    [][\A e \in EmailInputs, p \in PasswordInputs, ip \in IpInputs :
          (/\ last'.op = "login"
           /\ Authenticated(e, p) # 0
           /\ users[Authenticated(e, p)].mfaEnabled
           /\ calls' = calls + 1 /\ login(e, p, ip)) =>
              /\ last'.res = "requiresMfa"
              /\ last'.mfaToken # NoToken
              /\ NoSession]_vars

\* C9 amended: a login with the right password for an MFA-enabled user creates
\* no session, and unless the rate limit rejects it, it returns requiresMfa
\* with a challenge token that resolves to the user
C9_MfaLoginNoSession ==
    [][\A e \in EmailInputs, p \in PasswordInputs, ip \in IpInputs :
          (/\ last'.op = "login"
           /\ Authenticated(e, p) # 0
           /\ users[Authenticated(e, p)].mfaEnabled
           /\ calls' = calls + 1 /\ login(e, p, ip)) =>
              /\ NoSession
              /\ last'.res \in {"requiresMfa", "TooManyAttempts"}
              /\ last'.res = "TooManyAttempts" <=>
                    ~checkRateLimit(<<"login_attempts", Authenticated(e, p), ip>>, 5, 300)
              /\ last'.res = "requiresMfa" =>
                    \A m \in issued' : m = last'.mfaToken =>
                        (m # NoToken /\ verifyMfaToken(m)' = Authenticated(e, p))]_vars

C9_Witness ==
    /\ last.op = "login"
    /\ last.res = "requiresMfa"
    /\ users[last.user].mfaEnabled
    /\ verifyMfaToken(last.mfaToken) = last.user

\* C10: with a valid challenge token a wrong code fails Unauthorized, issues
\* nothing and leaves the challenge valid; the right code succeeds with a
\* token pair, also after a wrong code
C10_MfaWrongThenRight ==
    [][\A t \in Presented("mfa"), c \in MfaCodes :
          (/\ last'.op = "verifyMfaAndLogin"
           /\ verifyMfaToken(t) # 0
           /\ Call /\ verifyMfaAndLogin(t, c)) =>
              IF c # users[verifyMfaToken(t)].mfaSecret
              THEN /\ last'.res = "Unauthorized"
                   /\ last'.access = NoToken /\ last'.refresh = NoToken
                   /\ nextId' = nextId
                   /\ issued' = issued
                   /\ refreshTokenRows' = refreshTokenRows
                   /\ AccessGrants' = AccessGrants
                   /\ verifyMfaToken(t)' = verifyMfaToken(t)
              ELSE /\ last'.res = "ok"
                   /\ last'.user = verifyMfaToken(t)
                   /\ last'.access \in issued' /\ last'.refresh \in issued'
                   /\ last'.refresh.jti \in DOMAIN refreshTokenRows']_vars

C10_Witness ==
    /\ last.op = "verifyMfaAndLogin"
    /\ last.res = "ok"
    /\ last.arg \in failedMfa
    /\ last.refresh # NoToken

\* the number of observed calls up to the i-th that have its operation and
\* subject and fall in its 300-second window
WindowCount(i) ==
    Cardinality({j \in 1..i : /\ attempts[j].op = attempts[i].op
                              /\ attempts[j].subject = attempts[i].subject
                              /\ attempts[j].at \div 300 = attempts[i].at \div 300})

\* C11: checkRateLimit(key, 5, 300) allows a call exactly when it is among the
\* first five for its key in its window; keys are counted separately and a
\* new window starts the count again
C11_RateLimitWindow ==
    \A i \in DOMAIN attempts :
        attempts[i].op = "checkRateLimit" =>
            (attempts[i].res = "true" <=> WindowCount(i) <= 5)

C11_Witness ==
    /\ last.op = "checkRateLimit"
    /\ attempts # <<>>
    /\ attempts[Len(attempts)].res = "true"
    /\ \E i, j \in DOMAIN attempts :
          /\ attempts[i].subject = attempts[Len(attempts)].subject
          /\ attempts[i].res = "false"
          /\ attempts[j].subject # attempts[i].subject
          /\ attempts[j].at \div 300 = attempts[i].at \div 300
          /\ attempts[j].res = "true"
          /\ i < j

\* C12: a login attempt for a user and IP that follows five attempts for the
\* same user and IP in the same window is rejected as rate-limited, whatever
\* its password
C12_LoginAttemptsLimited ==
    \A i \in DOMAIN attempts :
        (/\ attempts[i].op = "login"
         /\ attempts[i].subject[1] # 0
         /\ WindowCount(i) > 5) => attempts[i].res = "TooManyAttempts"

\* the observed sendPasswordResetEmail calls for one email, their times and outcomes
ResetCallsOf(email) ==
    SelectSeq(attempts, LAMBDA a : a.op = "sendPasswordResetEmail" /\ a.subject = email)

TimesOf(q) == [i \in DOMAIN q |-> q[i].at]

OutcomesOf(q) == [i \in DOMAIN q |-> q[i].res]

\* C13: the same sequence of sendPasswordResetEmail calls has the same outcomes
\* for an email of a registered user and for an email of nobody
C13_ResetEmailHidesExistence ==
    \A e1, e2 \in ResetEmailInputs :
        (/\ findUserByEmail(e1) # 0
         /\ findUserByEmail(e2) = 0
         /\ TimesOf(ResetCallsOf(e1)) = TimesOf(ResetCallsOf(e2))) =>
            OutcomesOf(ResetCallsOf(e1)) = OutcomesOf(ResetCallsOf(e2))

\* C14: in every state, login with an email of nobody and login with a
\* registered email and a wrong password give the caller the same result, the
\* Unauthorized error
C14_LoginFailuresAlike ==
    \A e1 \in EmailInputs :
        (\A u \in DOMAIN users : users[u].email # NormalizedEmail[e1]) =>
            \A e2 \in EmailInputs, p2 \in PasswordInputs :
                (\E u \in DOMAIN users :
                    /\ users[u].email = NormalizedEmail[e2]
                    /\ users[u].passwordHash # hashPassword(p2)) =>
                    \A p1 \in PasswordInputs, ip \in IpInputs :
                        /\ loginResult(e1, p1, ip) = loginResult(e2, p2, ip)
                        /\ loginResult(e1, p1, ip).res = "Unauthorized"

C14_Witness ==
    /\ last.op = "login"
    /\ last.res = "Unauthorized"
    /\ attempts # <<>>
    /\ attempts[Len(attempts)].subject[1] # 0
    /\ ~checkRateLimit(<<"login_attempts", attempts[Len(attempts)].subject[1],
                         attempts[Len(attempts)].subject[2]>>, 5, 300)

\* C15: after logout(userId, refreshToken), with any refresh token or none,
\* every refreshToken row of the user is revoked, no refresh token issued to
\* the user verifies, and the user's blacklist marker is set
C15_LogoutRevokesAll ==
    [][\A u \in DOMAIN users, t \in Presented("refresh") \cup {NoToken} :
          (last'.op = "logout" /\ Call /\ logout(u, t)) =>
              /\ \A id \in DOMAIN refreshTokenRows' :
                    refreshTokenRows'[id].userId = u => refreshTokenRows'[id].isRevoked
              /\ \A r \in RefreshTokensOf(u) : ~verifyRefreshToken(r)'
              /\ redisLive(<<"user_blacklist", u>>)']_vars

C15_Witness ==
    /\ last.op = "logout"
    /\ last.arg = NoToken
    /\ Cardinality({r \in RefreshTokensOf(last.user) :
                       jwtVerify(r, FALSE) /\ r.jti \in DOMAIN refreshTokenRows}) >= 2

SingleUseTypes == {"email_verification", "password_reset"}

\* a token of the same purpose and user was issued after t
Superseded(t) ==
    \E n \in issued : n.type = t.type /\ n.sub = t.sub /\ n.jti > t.jti

\* C17: a single-use token does not verify once a later token was issued for
\* its purpose and user, presenting it changes nothing in the cache, and the
\* latest token verifies while it is unexpired and unused
C17_LatestSingleUseOnly ==
    [][/\ \A t \in issued' :
            t.type \in SingleUseTypes =>
                /\ Superseded(t)' => ~verifySingleUse(t.type, t)'
                /\ (~Superseded(t)' /\ now' < t.exp /\ t \notin consumed') =>
                       verifySingleUse(t.type, t)'
       /\ \A t \in issued :
            (/\ Superseded(t)
             /\ last'.op \in {"verifyEmailToken", "verifyPasswordResetToken"}
             /\ Call
             /\ VerifyEmailToken(t) \/ VerifyPasswordResetToken(t)) =>
                /\ last'.res = "null"
                /\ redis' = redis]_vars

C17_Witness ==
    /\ last.op = "verifyPasswordResetToken"
    /\ last.res = "null"
    /\ last.arg.type = "password_reset"
    /\ jwtVerify(last.arg, FALSE)
    /\ \E n \in issued :
          /\ n.type = "password_reset" /\ n.sub = last.arg.sub /\ n.jti > last.arg.jti
          /\ verifyPasswordResetToken(n)

\* C18: revokeRefreshToken raises no error and writes nothing to the cache;
\* for a token with the service's signature it marks the row of the token's
\* id revoked, and for any other input, or an id without a row, it leaves
\* the rows as they were
C18_RevokeTolerant ==
    [][\A t \in TokenInputs \cup ForgedInputs \cup {Garbage} :
          (last'.op = "revokeRefreshToken" /\ Call /\ RevokeRefreshToken(t)) =>
              /\ last'.res = "ok"
              /\ redis' = redis
              /\ IF t.sig /\ t.jti \in DOMAIN refreshTokenRows
                 THEN refreshTokenRows' = [refreshTokenRows EXCEPT ![t.jti].isRevoked = TRUE]
                 ELSE refreshTokenRows' = refreshTokenRows]_vars

C18_Witness ==
    /\ last.op = "revokeRefreshToken"
    /\ ~last.arg.sig
    /\ last.arg.jti \in DOMAIN refreshTokenRows
    /\ ~refreshTokenRows[last.arg.jti].isRevoked

\* the character classes of the policy that occur in a password
ClassesIn(p) ==
    {k \in {"uppercase", "lowercase", "digit", "symbol"} :
        \E i \in 1..Len(p) :
            CASE k = "uppercase" -> p[i] \in Range(UpperChars)
              [] k = "lowercase" -> p[i] \in Range(LowerChars)
              [] k = "digit" -> p[i] \in Range(DigitChars)
              [] k = "symbol" -> p[i] \in SpecialChars}

\* three characters that follow each other in a known sequence, forwards or backwards
SequentialRun(a, b, c) ==
    \E sequence \in sequences :
        \E i \in 1..(Len(sequence) - 2) :
            \/ <<a, b, c>> = <<sequence[i], sequence[i + 1], sequence[i + 2]>>
            \/ <<a, b, c>> = <<sequence[i + 2], sequence[i + 1], sequence[i]>>

\* the rule of the claim, with the runs read as written or with case ignored
PolicyAccepts(p, ignoreCase) ==
    /\ Len(p) >= 8
    /\ Len(p) <= 128
    /\ Cardinality(ClassesIn(p)) >= 3
    /\ \A w \in commonPasswords : toLowerCase(p) # w
    /\ \A i \in 1..(Len(p) - 2) :
          /\ ~(IF ignoreCase
               THEN SequentialRun(LowerChar(p[i]), LowerChar(p[i + 1]), LowerChar(p[i + 2]))
               ELSE SequentialRun(p[i], p[i + 1], p[i + 2]))
          /\ ~(p[i] = p[i + 1] /\ p[i + 1] = p[i + 2])

RECURSIVE DecimalValue(_)
DecimalValue(s) ==
    IF s = <<>> THEN 0
    ELSE (CHOOSE n \in 0..9 : DigitChars[n + 1] = Head(s)) * 10 ^ (Len(s) - 1)
            + DecimalValue(Tail(s))

UnitSeconds(u) ==
    CASE u = "s" -> 1 [] u = "m" -> 60 [] u = "h" -> 3600 [] u = "d" -> 86400 [] u = "w" -> 604800

\* the seconds the claim gives for a setting
ExpectedSeconds(e) ==
    IF e # <<>> /\ \A i \in 1..Len(e) : e[i] \in Range(DigitChars)
    THEN DecimalValue(e)
    ELSE IF /\ Len(e) >= 2
            /\ e[Len(e)] \in {"s", "m", "h", "d", "w"}
            /\ \A i \in 1..(Len(e) - 1) : e[i] \in Range(DigitChars)
         THEN DecimalValue(SubSeq(e, 1, Len(e) - 1)) * UnitSeconds(e[Len(e)])
         ELSE 3600

\* C20: parseExpiryToSeconds gives value times unit multiplier for digits with
\* an optional unit of s, m, h, d, w (no unit: seconds) and 3600 for every
\* other string
C20_ParseExpiry ==
    last.op = "parseExpiryToSeconds" => last.res = ExpectedSeconds(last.arg)

C20_Witness ==
    /\ last.op = "parseExpiryToSeconds"
    /\ last.arg = <<"1", "y">>
    /\ last.res = 3600

\* the refreshTokens calls that presented t, and those of them that succeeded
RefreshCallers(t) == {p \in Procs : pc[p].op = "refreshTokens" /\ pc[p].arg = t}

RefreshWinners(t) == {p \in RefreshCallers(t) : pc[p].res = "ok"}

\* C21 as stated: of the concurrent refreshTokens calls presenting one refresh
\* token at most two succeed
C21_AtMostTwoSucceed ==
    \A t \in issued : Cardinality(RefreshWinners(t)) <= 2

\* C21 amended: every one of the calls may succeed, each with a pair of its
\* own whose row and grant were written, and once all the calls have
\* completed and one succeeded the presented token's row is revoked
C21_RaceEndsRevoked ==
    \A t \in issued :
        /\ \A p, q \in RefreshWinners(t) :
              /\ pc[p].refresh.jti \in DOMAIN refreshTokenRows
              /\ <<"access_token", pc[p].access.jti>> \in DOMAIN redis
              /\ p # q => pc[p].refresh # pc[q].refresh /\ pc[p].access # pc[q].access
        /\ (RefreshCallers(t) \subseteq Completed /\ RefreshWinners(t) # {}) =>
              /\ t.jti \in DOMAIN refreshTokenRows
              /\ refreshTokenRows[t.jti].isRevoked
              /\ ~verifyRefreshToken(t)

C21_Witness ==
    \E t \in issued :
        /\ RefreshCallers(t) \subseteq Completed
        /\ Cardinality(RefreshWinners(t)) >= 3
        /\ refreshTokenRows[t.jti].isRevoked

\* C22: of the concurrent verifications presenting one single-use token at
\* most one returns the token's data
C22_NoConcurrentReplay ==
    \A t \in issued :
        Cardinality({p \in Procs : pc[p].arg = t /\ pc[p].res = "ok"}) <= 1

\* C24: no step changes a row's revoked flag from true to false, or its expiry
\* or owner, and no new row takes the id of an earlier one; a refresh token
\* that verifyRefreshToken rejects is rejected in every later state
C24_RevokedExpiredTerminal ==
    [][/\ \A id \in DOMAIN refreshTokenRows \cap DOMAIN refreshTokenRows' :
             /\ refreshTokenRows[id].isRevoked => refreshTokenRows'[id].isRevoked
             /\ refreshTokenRows'[id].expiresAt = refreshTokenRows[id].expiresAt
             /\ refreshTokenRows'[id].userId = refreshTokenRows[id].userId
       /\ \A id \in DOMAIN refreshTokenRows' \ DOMAIN refreshTokenRows : id >= nextId
       /\ \A t \in issued \cup ForgedInputs :
             (t.type = "refresh" /\ ~verifyRefreshToken(t)) => ~verifyRefreshToken(t)']_vars

C24_Witness ==
    \E t \in issued :
        /\ t.type = "refresh"
        /\ last.op = "verifyRefreshToken" /\ last.arg = t /\ last.res = "null"
        /\ t.jti \in DOMAIN refreshTokenRows
        /\ refreshTokenRows[t.jti].isRevoked

\* the ids that revokeAccessToken has been called with
ExplicitlyRevoked == {attempts[i].subject : i \in {x \in DOMAIN attempts : attempts[x].op = "revokeAccessToken"}}

\* C25: verifyAccessToken returns null for every access token whose id
\* revokeAccessToken has been called with, whatever ttl the call was given
C25_RevokedAccessStaysRevoked ==
    \A t \in issued :
        (t.type = "undefined" /\ t.jti \in ExplicitlyRevoked) => ~verifyAccessToken(t)

\* C26: revokeAllUserTokens(userId) marks every row of the user revoked and
\* writes the user's blacklist marker; the rows of the other users, the
\* access-token grants and the single-use entries are as they were
C26_RevokeAllFrame ==
    [][\A u \in DOMAIN users :
          (last'.op = "revokeAllUserTokens" /\ Call /\ RevokeAllUserTokens(u)) =>
              /\ DOMAIN refreshTokenRows' = DOMAIN refreshTokenRows
              /\ \A id \in DOMAIN refreshTokenRows :
                    refreshTokenRows'[id] =
                        IF refreshTokenRows[id].userId = u
                        THEN [refreshTokenRows[id] EXCEPT !.isRevoked = TRUE]
                        ELSE refreshTokenRows[id]
              /\ <<"user_blacklist", u>> \in DOMAIN redis'
              /\ redis'[<<"user_blacklist", u>>] = [val |-> "true", exp |-> now + UserBlacklistTtl]
              /\ DOMAIN redis' = DOMAIN redis \cup {<<"user_blacklist", u>>}
              /\ \A k \in DOMAIN redis : k # <<"user_blacklist", u>> => redis'[k] = redis[k]]_vars

C26_Witness ==
    /\ last.op = "revokeAllUserTokens"
    /\ \E id \in DOMAIN refreshTokenRows :
          refreshTokenRows[id].userId = last.user /\ refreshTokenRows[id].isRevoked
    /\ \E id \in DOMAIN refreshTokenRows :
          refreshTokenRows[id].userId # last.user /\ ~refreshTokenRows[id].isRevoked
    /\ \E k \in AccessGrants : redis[k].val.userId = last.user
    /\ \E k \in DOMAIN redis : k[1] = "password_reset"

\* C27: revokeRefreshToken and the rotation of refreshTokens leave every
\* access-token grant as it was, and every access token that verified before
\* verifies after; revokeAccessToken leaves every refreshToken row as it was
C27_NoLifetimeCoupling ==
    [][/\ \A t \in Presented("refresh") :
             (last'.op = "revokeRefreshToken" /\ Call /\ RevokeRefreshToken(t)) =>
                 /\ \A k \in AccessGrants : k \in DOMAIN redis' /\ redis'[k] = redis[k]
                 /\ \A a \in issued : verifyAccessToken(a) => verifyAccessToken(a)'
       /\ \A t \in Presented("refresh") :
             (last'.op = "refreshTokens" /\ Call /\ refreshTokens(t)) =>
                 /\ \A k \in AccessGrants : k \in DOMAIN redis' /\ redis'[k] = redis[k]
                 /\ \A a \in issued : verifyAccessToken(a) => verifyAccessToken(a)'
       /\ \A j \in AccessIds, e \in ExpiresInInputs :
             (last'.op = "revokeAccessToken" /\ RevokeAccessToken(j, e)) =>
                 refreshTokenRows' = refreshTokenRows]_vars

\* the access token issued together with refresh token t
PairedAccess(t) == {a \in issued : a.type = "undefined" /\ a.jti = t.jti - 1}

C27_Witness ==
    /\ last.op = "refreshTokens" /\ last.res = "ok"
    /\ refreshTokenRows[last.arg.jti].isRevoked
    /\ \E a \in PairedAccess(last.arg) : verifyAccessToken(a)

\* the ids under which a grant or a row is stored
GrantIds == {k[2] : k \in AccessGrants}

\* C28: a generateTokenPair that returns a pair has written the row and then
\* the grant, each once and each under an id nothing was stored under; the
\* row is there before the grant is written and the pair returned
C28_IssueWritesInOrder ==
    [][\A p \in Procs :
          /\ (pc[p].at = "start" /\ pc'[p].at # "start") =>
                /\ pc'[p].at = "create"
                /\ refreshTokenRows' = refreshTokenRows /\ redis' = redis /\ issued' = issued
                /\ pc'[p].access.jti # pc'[p].refresh.jti
                /\ pc'[p].access.jti \notin GrantIds \cup DOMAIN refreshTokenRows
                /\ pc'[p].refresh.jti \notin GrantIds \cup DOMAIN refreshTokenRows
                /\ \A q \in Procs \ {p} :
                      {pc'[p].access.jti, pc'[p].refresh.jti}
                          \cap {pc[q].access.jti, pc[q].refresh.jti} = {}
          /\ (pc[p].at = "create" /\ pc'[p].at # "create") =>
                /\ pc'[p].at = "setex"
                /\ pc[p].refresh.jti \notin DOMAIN refreshTokenRows
                /\ DOMAIN refreshTokenRows' = DOMAIN refreshTokenRows \cup {pc[p].refresh.jti}
                /\ \A id \in DOMAIN refreshTokenRows : refreshTokenRows'[id] = refreshTokenRows[id]
                /\ refreshTokenRows'[pc[p].refresh.jti].userId = pc[p].user
                /\ ~refreshTokenRows'[pc[p].refresh.jti].isRevoked
                /\ redis' = redis /\ issued' = issued
          /\ (pc'[p].res = "ok" /\ pc[p].res # "ok") =>
                /\ pc[p].at = "setex"
                /\ pc[p].refresh.jti \in DOMAIN refreshTokenRows
                /\ refreshTokenRows' = refreshTokenRows
                /\ <<"access_token", pc[p].access.jti>> \notin DOMAIN redis
                /\ DOMAIN redis' = DOMAIN redis \cup {<<"access_token", pc[p].access.jti>>}
                /\ \A k \in DOMAIN redis : redis'[k] = redis[k]
                /\ redis'[<<"access_token", pc[p].access.jti>>].val.userId = pc[p].user
                /\ issued' = issued \cup {pc[p].access, pc[p].refresh}]_vars

C28_Witness ==
    \E p \in Procs, q \in Procs :
        /\ p # q
        /\ pc[p].op = "generateTokenPair" /\ pc[p].res = "ok"
        /\ pc[q].op = "generateTokenPair" /\ pc[q].res = "ok"
        /\ {pc[p].refresh, pc[q].refresh} \subseteq issued
        /\ {pc[p].refresh.jti, pc[q].refresh.jti} \subseteq DOMAIN refreshTokenRows
        /\ {pc[p].access.jti, pc[q].access.jti} \subseteq GrantIds

\* the calls of generateTokenPair that failed at the cache write
FailedAtCacheWrite == {p \in Procs : pc[p].op = "generateTokenPair" /\ pc[p].res = "error"}

\* C29: a generateTokenPair that fails at the cache write has returned no
\* token, its access token does not verify, and the access tokens that do
\* verify are those of the calls that returned
C29_FailedIssueIsSafe ==
    /\ \A p \in FailedAtCacheWrite :
          /\ pc[p].refresh.jti \in DOMAIN refreshTokenRows
          /\ pc[p].access \notin issued /\ pc[p].refresh \notin issued
          /\ ~verifyAccessToken(pc[p].access)
    /\ \A p \in Procs :
          (pc[p].op = "generateTokenPair" /\ verifyAccessToken(pc[p].access)) =>
              pc[p].res = "ok" /\ pc[p].access \in issued

C29_Witness ==
    \E p \in FailedAtCacheWrite, q \in Procs :
        /\ pc[p].refresh.jti \in DOMAIN refreshTokenRows
        /\ now < pc[p].access.exp
        /\ pc[q].res = "ok" /\ verifyAccessToken(pc[q].access)

\* C30: a verifyAccessToken during which the read of the revocation marker or
\* of the grant fails returns null
C30_FailsClosed ==
    [][\A t \in Presented("undefined"), markerReadFails \in BOOLEAN, grantReadFails \in BOOLEAN :
          (/\ markerReadFails \/ grantReadFails
           /\ last'.op = "verifyAccessToken, a cache read failing"
           /\ Call /\ VerifyAccessTokenWith(t, markerReadFails, grantReadFails)) =>
              last'.res = "null" /\ last'.user = 0]_vars

C30_Witness ==
    /\ last.op = "verifyAccessToken, a cache read failing"
    /\ last.res = "null"
    /\ verifyAccessToken(last.arg)

\* the position of the last audit row of the user with one of the actions, 0 without one
LastAudit(userId, actions) ==
    IF \E i \in DOMAIN auditLog : auditLog[i].userId = userId /\ auditLog[i].action \in actions
    THEN CHOOSE i \in DOMAIN auditLog :
            /\ auditLog[i].userId = userId /\ auditLog[i].action \in actions
            /\ \A j \in DOMAIN auditLog :
                  (auditLog[j].userId = userId /\ auditLog[j].action \in actions) => j <= i
    ELSE 0

\* C23: once a logout or password change of a user and the refreshTokens calls
\* racing with it have completed, and the user has not logged in again, the
\* user has no refreshToken row that is unrevoked and unexpired
C23_NoSessionSurvives ==
    \A u \in DOMAIN users :
        (/\ LastAudit(u, {"LOGOUT", "PASSWORD_CHANGE"}) >
                LastAudit(u, {"LOGIN_SUCCESS", "MFA_LOGIN_SUCCESS", "REGISTER"})
         /\ \A p \in Procs : pc[p].at \in {"start", "done"}) =>
            \A id \in DOMAIN refreshTokenRows :
                refreshTokenRows[id].userId = u =>
                    (refreshTokenRows[id].isRevoked \/ ~(now < refreshTokenRows[id].expiresAt))

\* the calls during which the lookup of the presented token failed
LookupFailed ==
    last.op \in {"refreshTokens, the store failing", "verifyEmail, the cache failing",
                 "resetPassword, the cache failing"}

\* C31: a refreshTokens, verifyEmail or resetPassword during which the lookup
\* of the token fails does not answer Unauthorized or invalid-or-expired token
C31_OutageIsNotAuthError ==
    LookupFailed => last.res \notin {"Unauthorized", "BadRequest"}

\* the times at which revokeRefreshToken was called for the row
RevokeTimes(id) ==
    {attempts[i].at : i \in {x \in DOMAIN attempts :
                                attempts[x].op = "revokeRefreshToken" /\ attempts[x].subject = id}}

\* the time at which the row was revoked: that of the first call for it
RevokedAt(id) == CHOOSE a \in RevokeTimes(id) : \A b \in RevokeTimes(id) : a <= b

\* C32: cleanExpiredTokens deletes a row iff the row is expired or has been
\* revoked for longer than the retention window
C32_SweepDeletesExactly ==
    [][(last'.op = "cleanExpiredTokens" /\ Call /\ CleanExpiredTokens) =>
          \A id \in DOMAIN refreshTokenRows :
              id \notin DOMAIN refreshTokenRows' <=>
                  \/ refreshTokenRows[id].expiresAt < now
                  \/ /\ refreshTokenRows[id].isRevoked
                     /\ RevokedAt(id) < now - RetentionSeconds]_vars

\* C40: cleanExpiredTokens deletes no row that is unrevoked and unexpired, and
\* verifyRefreshToken answers the same for every token before and after it
C40_SweepKeepsOutcomes ==
    [][(last'.op = "cleanExpiredTokens" /\ Call /\ CleanExpiredTokens) =>
          /\ \A id \in DOMAIN refreshTokenRows :
                (~refreshTokenRows[id].isRevoked /\ ~(refreshTokenRows[id].expiresAt < now)) =>
                    id \in DOMAIN refreshTokenRows' /\ refreshTokenRows'[id] = refreshTokenRows[id]
          /\ \A t \in issued \cup ForgedInputs :
                verifyRefreshToken(t)' = verifyRefreshToken(t)]_vars

C40_Witness ==
    /\ last.op = "cleanExpiredTokens"
    /\ \E t \in issued :
          /\ verifyRefreshToken(t)
          /\ refreshTokenRows[t.jti].createdAt < now - RetentionSeconds

NotifiedIn(op, userId, w) ==
    {i \in DOMAIN attempts :
        /\ attempts[i].op = op /\ attempts[i].res = "ok"
        /\ findUserByEmail(attempts[i].subject) = userId
        /\ attempts[i].at \div 300 = w}

\* C34: at most 3 notifications of a kind are enqueued for one account within
\* one 5-minute window, whatever spellings of its email the calls submit
C34_NotificationsLimited ==
    \A op \in {"sendPasswordResetEmail", "sendVerificationEmail"}, u \in DOMAIN users :
        \A w \in 0..(now \div 300) : Cardinality(NotifiedIn(op, u, w)) <= 3

\* the passwords of PasswordInputs that the stated policy rejects
PolicyRejected == {p \in PasswordInputs : ~PolicyAccepts(p, TRUE)}

\* C35: register for an email nobody holds and a password the policy rejects
\* answers ValidationError and writes nothing; register for an email that is
\* taken answers Conflict, whatever the password
C35_RegisterRejectsCleanly ==
    [][\A email \in EmailInputs, password \in PasswordInputs :
          (last'.op = "register" /\ Call /\ register(email, password)) =>
              /\ (findUserByEmail(email) # 0) => last'.res = "Conflict"
              /\ (findUserByEmail(email) = 0 /\ password \in PolicyRejected) =>
                    last'.res = "ValidationError"
              /\ (findUserByEmail(email) # 0 \/ password \in PolicyRejected) =>
                    /\ users' = users /\ refreshTokenRows' = refreshTokenRows
                    /\ redis' = redis /\ authQueue' = authQueue
                    /\ auditLog' = auditLog /\ issued' = issued]_vars

C35_Witness ==
    /\ last.op = "register" /\ last.res = "ValidationError"
    /\ \E e \in EmailInputs : findUserByEmail(e) = 0

\* C36: logout(userId, refreshToken) leaves the rows of the other users as
\* they were
C36_LogoutOwnRowsOnly ==
    [][\A u \in DOMAIN users, t \in Presented("refresh") \cup {NoToken} :
          (last'.op = "logout" /\ Call /\ logout(u, t)) =>
              \A id \in DOMAIN refreshTokenRows :
                  refreshTokenRows[id].userId # u => refreshTokenRows'[id] = refreshTokenRows[id]]_vars

\* the single-use purpose other than the token's
OtherPurpose(t) == IF t.type = "email_verification" THEN "password_reset" ELSE "email_verification"

\* C37: verifyAccessToken rejects every token that is no access token,
\* verifyRefreshToken every token that is no refresh token, and the verifier
\* of one single-use purpose rejects the token of the other and leaves the
\* cache as it was
C37_KindsNeverConfused ==
    [][/\ \A t \in issued :
             /\ t.type # "undefined" => ~verifyAccessToken(t)
             /\ t.type # "refresh" => ~verifyRefreshToken(t)
             /\ t.type \in SingleUseTypes => ~verifySingleUse(OtherPurpose(t), t)
       /\ \A t \in TokenInputs :
             /\ (/\ t.type = "password_reset"
                 /\ last'.op = "verifyEmailToken" /\ Call /\ VerifyEmailToken(t)) =>
                    last'.res = "null" /\ redis' = redis
             /\ (/\ t.type = "email_verification"
                 /\ last'.op = "verifyPasswordResetToken" /\ Call /\ VerifyPasswordResetToken(t)) =>
                    last'.res = "null" /\ redis' = redis
             /\ (/\ t.type # "undefined"
                 /\ last'.op = "verifyAccessToken" /\ Call /\ VerifyAccessToken(t)) =>
                    last'.res = "null"
             /\ (/\ t.type # "refresh"
                 /\ last'.op = "verifyRefreshToken" /\ Call /\ VerifyRefreshToken(t)) =>
                    last'.res = "null"]_vars

C37_Witness ==
    /\ last.op = "verifyPasswordResetToken" /\ last.res = "null"
    /\ last.arg.type = "email_verification"
    /\ verifyEmailToken(last.arg)
    /\ redisLive(<<"password_reset", last.arg.sub>>)

\* C38: after a refreshTokens that returned a pair, also one whose revoke step
\* met a failing store, verifyRefreshToken rejects the presented token
C38_ReturnImpliesRevoked ==
    (last.op \in {"refreshTokens", "refreshTokens, the revoke failing"} /\ last.res = "ok") =>
        ~verifyRefreshToken(last.arg)

\* C39: resetPassword with a valid token and a password the policy rejects
\* answers ValidationError, leaves the users and the refreshToken rows as
\* they were and the token consumed; a consumed token is rejected afterwards
C39_ResetConsumesFirst ==
    [][/\ \A t \in Presented("password_reset"), password \in PasswordInputs :
             (/\ last'.op = "resetPassword" /\ Call /\ resetPassword(t, password)
              /\ verifyPasswordResetToken(t) /\ t.sub \in DOMAIN users
              /\ password \in PolicyRejected) =>
                 /\ last'.res = "ValidationError"
                 /\ users' = users /\ refreshTokenRows' = refreshTokenRows
                 /\ auditLog' = auditLog
                 /\ t \in consumed'
                 /\ ~verifyPasswordResetToken(t)'
       /\ \A t \in consumed, password \in PasswordInputs :
             (last'.op = "resetPassword" /\ Call /\ resetPassword(t, password)) =>
                 last'.res = "BadRequest" /\ users' = users]_vars

C39_Witness ==
    /\ last.op = "resetPassword" /\ last.res = "BadRequest"
    /\ last.arg \in consumed
    /\ \A i \in DOMAIN auditLog : auditLog[i].action # "PASSWORD_RESET"
    /\ users[last.arg.sub].passwordHash = hashPassword(Str0ngPass)

====
